---------------------------- MODULE Spec2Model ----------------------------
(***************************************************************************)
(* A model of the unified ThreadPool of src/thread_pool.cpp: its three     *)
(* constructors, submit, the four worker loops and the destructor.         *)
(*                                                                         *)
(* Threads are numbered.  1..MaxW are worker threads (in the work-stealing *)
(* kinds thread i runs on slot i, the C++ index i-1); Owner is the thread  *)
(* that owns the pool object (it submits, then destroys the pool) and      *)
(* Client is a second external thread that submits.                        *)
(*                                                                         *)
(* A mutex is the set of threads holding it ({} when free).  A critical    *)
(* section that neither blocks nor takes another lock is one action        *)
(* guarded by the mutex being free.  A condition variable is the set of    *)
(* threads blocked in it.                                                  *)
(***************************************************************************)
EXTENDS Integers, Sequences, FiniteSets, TLC

\* Largest thread count a constructor is given in the pool specifications.
MaxThreads == 2
\* Number of tasks the environment creates (outer and nested ones together).
MaxTasks == 2
\* Number of sub-tasks a nesting task submits from inside its worker.
KInner == 1
\* Number of submit calls with an empty task (SpecNull).
MaxNull == 1
\* Largest argument value tried on the constructors (SpecCtor).
MaxArg == 4
\* Largest number of child tasks a cooperative task awaits one after another.
MaxChildren == 2
\* Largest number of schedule() / sleep_for awaits in one task body.
MaxYield == 1
\* Largest number of detached tasks spawned, and of rounds of each.
MaxDetached == 2
\* Largest number of rounds of a detached task.
MaxRounds == 2
\* The fork-join pool (src/thread_pool_forkjoin.cpp): its threads, the outer
\* tasks submitted to it and the sub-tasks each outer task submits.
FjThreads == 2
FjOuter == 2
FjInner == 1
\* Number of sub-tasks a forking task submits from inside its worker, and the
\* number of task ids of the specifications about the order of the worker
\* queues (SpecOrder).
MaxFork == 2
MaxOrderTasks == 3
\* Largest pool of the specification of the locks (SpecLocks).
MaxLockThreads == 3

ClassicFixed == "ClassicFixed"
ElasticGlobal == "ElasticGlobal"
WorkStealing == "WorkStealing"
AdvancedElasticStealing == "AdvancedElasticStealing"
PoolKind == {ClassicFixed, ElasticGlobal, WorkStealing, AdvancedElasticStealing}

\* Worker threads: a global-queue elastic pool starts at most one thread per
\* submit on top of the min_threads ones started by its constructor.
MaxW == MaxThreads + MaxTasks
Workers == 1..MaxW
Owner == MaxW + 1
Client == MaxW + 2
Externals == {Owner, Client}
Threads == Workers \cup Externals
Tasks == 1..MaxTasks
\* Every task id of any specification.
TaskSpace == 1..(IF MaxOrderTasks > MaxTasks THEN MaxOrderTasks ELSE MaxTasks)

\* size_t arithmetic of the atomic counters (fetch_add / fetch_sub wrap).  The
\* width is scaled down from 64 bits to what the checker's integers hold.
SizeModulus == 2^16
SizeAdd(x, d) == (x + d) % SizeModulus
SizeSub(x, d) == (x - d + SizeModulus) % SizeModulus

Range(f) == {f[i] : i \in DOMAIN f}

---------------------------------------------------------------------------
(* The constructors, as functions from their arguments to the constructed  *)
(* object or to the std::invalid_argument they throw.  `started' counts    *)
(* the threads started before the constructor returned or threw.           *)

InvalidConfig(what) ==
    [ok |-> FALSE, error |-> what, started |-> 0,
     kind |-> ClassicFixed, min_threads |-> 0, max_threads |-> 0,
     active_threads |-> 0, ws_min_threads |-> 0, ws_max_threads |-> 0,
     ws_active_threads |-> 0, nqueues |-> 0, ws_running |-> <<>>,
     workers |-> <<>>]

\* init_ws_storage(max) followed by spawn_ws_worker(0) .. spawn_ws_worker(n-1)
WsRunningAfterSpawn(max, n) == [i \in 1..max |-> i <= n]

\* A fixed-size constructor without the test of line 24: it builds a pool for
\* an elastic kind too.  C10_ConstructorErrors does not hold of it.
CtorFixedAnyKind(num_threads, k) ==
    IF num_threads = 0
    THEN InvalidConfig("ThreadPool: num_threads must be > 0")
    ELSE [ok |-> TRUE, error |-> "", started |-> num_threads,
          kind |-> k, min_threads |-> num_threads, max_threads |-> num_threads,
          active_threads |-> num_threads,
          ws_min_threads |-> num_threads, ws_max_threads |-> num_threads,
          ws_active_threads |-> 0, nqueues |-> 0, ws_running |-> <<>>,
          workers |-> [i \in 1..num_threads |-> i]]

\* ThreadPool(size_t num_threads, PoolKind kind)
CtorFixed(num_threads, k) ==
    IF num_threads = 0
    THEN InvalidConfig("ThreadPool: num_threads must be > 0")
    ELSE IF k = AdvancedElasticStealing \/ k = ElasticGlobal
    THEN InvalidConfig("ThreadPool: invalid kind for fixed-size constructor")
    ELSE IF k = WorkStealing
    THEN [ok |-> TRUE, error |-> "", started |-> num_threads,
          kind |-> k, min_threads |-> num_threads, max_threads |-> num_threads,
          active_threads |-> 0,
          ws_min_threads |-> num_threads, ws_max_threads |-> num_threads,
          ws_active_threads |-> num_threads, nqueues |-> num_threads,
          ws_running |-> WsRunningAfterSpawn(num_threads, num_threads),
          workers |-> <<>>]
    ELSE [ok |-> TRUE, error |-> "", started |-> num_threads,
          kind |-> k, min_threads |-> num_threads, max_threads |-> num_threads,
          active_threads |-> num_threads,
          ws_min_threads |-> num_threads, ws_max_threads |-> num_threads,
          ws_active_threads |-> 0, nqueues |-> 0, ws_running |-> <<>>,
          workers |-> [i \in 1..num_threads |-> i]]

\* ThreadPool(size_t min_threads, size_t max_threads, milliseconds idle_timeout)
CtorElasticGlobal(min, max) ==
    IF min = 0 \/ max = 0 \/ min > max
    THEN InvalidConfig("ThreadPool elastic: invalid thread bounds")
    ELSE [ok |-> TRUE, error |-> "", started |-> min,
          kind |-> ElasticGlobal, min_threads |-> min, max_threads |-> max,
          active_threads |-> min,
          ws_min_threads |-> 0, ws_max_threads |-> 0,
          ws_active_threads |-> 0, nqueues |-> 0, ws_running |-> <<>>,
          workers |-> [i \in 1..min |-> i]]

\* An elastic work-stealing constructor that starts a worker on every slot.
\* C33_ConstructionPostconditions does not hold of it.
CtorElasticStealingSpawnsAll(min, max, k) ==
    IF k # AdvancedElasticStealing
    THEN InvalidConfig("ThreadPool: this constructor is only for AdvancedElasticStealing")
    ELSE IF min = 0 \/ max = 0 \/ min > max
    THEN InvalidConfig("ThreadPool advanced elastic: invalid thread bounds")
    ELSE [ok |-> TRUE, error |-> "", started |-> max,
          kind |-> k, min_threads |-> 0, max_threads |-> 0,
          active_threads |-> 0,
          ws_min_threads |-> min, ws_max_threads |-> max,
          ws_active_threads |-> max, nqueues |-> max,
          ws_running |-> WsRunningAfterSpawn(max, max),
          workers |-> <<>>]

\* ThreadPool(size_t min_threads, size_t max_threads, PoolKind kind,
\*            milliseconds idle_timeout)
CtorElasticStealing(min, max, k) ==
    IF k # AdvancedElasticStealing
    THEN InvalidConfig("ThreadPool: this constructor is only for AdvancedElasticStealing")
    ELSE IF min = 0 \/ max = 0 \/ min > max
    THEN InvalidConfig("ThreadPool advanced elastic: invalid thread bounds")
    ELSE [ok |-> TRUE, error |-> "", started |-> min,
          kind |-> k, min_threads |-> 0, max_threads |-> 0,
          active_threads |-> 0,
          ws_min_threads |-> min, ws_max_threads |-> max,
          ws_active_threads |-> min, nqueues |-> max,
          ws_running |-> WsRunningAfterSpawn(max, min),
          workers |-> <<>>]

\* A constructor call: which overload, and its arguments.
CtorCalls(top) ==
    [ctor : {"fixed"}, a : 0..top, b : {0}, k : PoolKind]
      \cup [ctor : {"elastic_global"}, a : 0..top, b : 0..top, k : {ElasticGlobal}]
      \cup [ctor : {"elastic_stealing"}, a : 0..top, b : 0..top, k : PoolKind]

Construct(c) ==
    CASE c.ctor = "fixed" -> CtorFixed(c.a, c.k)
      [] c.ctor = "elastic_global" -> CtorElasticGlobal(c.a, c.b)
      [] c.ctor = "elastic_stealing" -> CtorElasticStealing(c.a, c.b, c.k)

---------------------------------------------------------------------------
VARIABLES
    ctor_call,          \* the constructor call made (SpecCtor: the last one)
    ctor_out,           \* what it returned or threw
    kind, min_threads, max_threads, active_threads, idle_threads,
    ws_min_threads, ws_max_threads, ws_active_threads, ws_idle_threads,
    task_queue,         \* std::queue task_queue_
    workers,            \* the storage of std::vector<std::thread> workers_
    workers_end,        \* its size (the vector's finish pointer)
    ws_queues,          \* ws_queues_[i]->dq, front first
    ws_running,         \* ws_running_
    ws_threads,         \* ws_threads_[i].joinable()
    ws_queued_tasks, ws_rr, stop,
    queue_mutex, ws_cv_mutex,   \* holders
    queue_cv, ws_cv,            \* threads blocked in wait / wait_for
    pc,                 \* where each thread is
    cur,                \* the task a worker is executing (0: none)
    arg,                \* the task a thread is submitting (0: none)
    loc,                \* a thread's local: idx, spawn_id, steal k, vector end
    inner_done,         \* sub-tasks a nesting task has submitted so far
    dtor_it,            \* the destructor's position in its join loops
    next_task,          \* tasks created so far
    body,               \* what each task does: "inc", "throw", "nest"
    runs,               \* how often each task's body has been executed
    outcome,            \* of the submit of each task
    null_returns,       \* submit calls with an empty task that have returned
    at_stop,            \* the tasks that were queued when stop was set
    terminated,         \* std::terminate was called
    \* --- the coroutine runtime of src/coro_runtime.h ---
    co_prog,            \* what each coroutine's body does (fixed per behaviour)
    co_state,           \* where each coroutine frame is
    continuation,       \* promise_type::continuation (0: null)
    value,              \* promise_type::value (0: empty)
    exception,          \* promise_type::exception is set
    co_i,               \* schedule()/sleep_for awaits a body has made
    co_k,               \* child tasks a body has awaited
    co_acc,             \* what a body has got from its awaits so far
    posted,             \* resumptions submitted to the pool, oldest first
    timer,              \* the timer thread of a frame in sleep_for
    co_run,             \* the frame each thread is executing (0: none)
    co_depth,           \* nested resume() calls on each thread's stack
    mpc,                \* where the calling thread is
    done, out, ep,      \* locals of sync_wait
    remaining, shared,  \* DetachedBarrier::remaining and the shared counter
    spawned,            \* detached tasks called so far
    co_log,             \* what has been observed (counts per frame)
    \* --- the pool of src/thread_pool_forkjoin.cpp ---
    fj,                 \* WorkStealingThreadPool, its threads and its tasks
    \* --- the mutexes of src/thread_pool.cpp, lock by lock ---
    lk                  \* who holds which mutex, where each thread is

\* The state of the coroutine runtime; no operation of the pool touches it.
coVars == <<co_prog, co_state, continuation, value, exception, co_i, co_k, co_acc,
            posted, timer, co_run, co_depth, mpc, done, out, ep, remaining, shared,
            spawned, co_log>>
\* What is fixed at construction (and, for the pool's operations, the
\* coroutine runtime's state, which they leave alone).
cfgVars == <<ctor_call, ctor_out, kind, min_threads, max_threads,
             ws_min_threads, ws_max_threads, coVars, fj, lk>>
gVars == <<active_threads, idle_threads, task_queue, workers, workers_end,
           queue_mutex, queue_cv>>
wsVars == <<ws_active_threads, ws_idle_threads, ws_queues, ws_running, ws_threads,
            ws_queued_tasks, ws_rr, ws_cv_mutex, ws_cv>>
thrVars == <<pc, cur, arg, loc, inner_done, dtor_it>>
envVars == <<next_task, body, runs, outcome, null_returns, at_stop>>
\* Everything the pool object owns.
poolVars == <<kind, min_threads, max_threads, ws_min_threads, ws_max_threads,
              gVars, wsVars, stop>>
vars == <<cfgVars, gVars, wsVars, thrVars, envVars, stop, terminated>>

---------------------------------------------------------------------------
(* The coroutine runtime (src/coro_runtime.h): frames, threads, programs.  *)

\* Largest number of worker threads of the pool the coroutines run on.
CoPoolSize == 2

\* Coroutine frames.  Under sync_wait frame 1 is the waiter coroutine, frame
\* 2 the task handed to sync_wait and the frames after it the child tasks it
\* awaits; otherwise the frames are detached tasks.
CoFrames == 1..(MaxChildren + 2)
WaiterFrame == 1
RootFrame == 2
\* Thread 0 is the thread that calls sync_wait or spawns the detached tasks,
\* the others are the pool's workers.
CoCaller == 0
CoWorkers == 1..CoPoolSize
CoThreads == {CoCaller} \cup CoWorkers

\* What a body does: it makes `yields' awaits of schedule() or sleep_for,
\* then awaits the tasks of `kids' one after another, then ends with `result'.
\* A detached task increments the shared counter before each of its awaits
\* and ends with mark_done.
NoProg == [type |-> "none", kids |-> <<>>, yields |-> 0, via |-> "schedule",
           result |-> "value"]

TaskProgs(kids, results) ==
    [type : {"task"}, kids : {kids}, yields : 0..MaxYield,
     via : {"schedule", "sleep"}, result : results]

\* sync_wait(task) with a task that awaits n children.
SyncPrograms ==
    {p \in [CoFrames -> TaskProgs(<<>>, {"value", "throw"}) \cup {NoProg}
                          \cup UNION {TaskProgs([i \in 1..n |-> RootFrame + i],
                                                {"value", "throw", "never"})
                                        : n \in 0..MaxChildren}
                          \cup {[type |-> "waiter", kids |-> <<RootFrame>>, yields |-> 0,
                                 via |-> "schedule", result |-> "value"]}] :
        /\ p[WaiterFrame].type = "waiter"
        /\ p[RootFrame].type = "task"
        /\ \A f \in CoFrames \ {WaiterFrame, RootFrame} :
             IF f - RootFrame <= Len(p[RootFrame].kids)
             THEN p[f].type = "task" /\ p[f].kids = <<>> /\ p[f].result # "never"
             ELSE p[f] = NoProg
        /\ \A f \in CoFrames : p[f].yields = 0 => p[f].via = "schedule"}

\* k detached tasks of r rounds each.
DetachedPrograms ==
    {[f \in CoFrames |->
        IF f <= k THEN [type |-> "detached", kids |-> <<>>, yields |-> r,
                        via |-> "schedule", result |-> "value"]
        ELSE NoProg] : k \in 0..MaxDetached, r \in 0..MaxRounds}

\* The value a task's body returns: its own number plus what its awaits gave.
ReturnValue(f, acc) == f + acc

\* Nothing has been observed yet.
NoLog == [posts |-> [f \in CoFrames |-> 0],      \* resumptions submitted
          resumed |-> [f \in CoFrames |-> 0],    \* ... executed by a worker
          awaits |-> [f \in CoFrames |-> 0],     \* suspensions on a child
          cont |-> [f \in CoFrames |-> 0],       \* resumptions as continuation
          got |-> [f \in CoFrames |-> <<>>],     \* what each await gave
          escaped |-> FALSE]                     \* an exception left a frame

\* The state before the program p has started: its Task objects exist, every
\* frame is suspended at its initial suspend point.
CoInit(p, start) ==
    /\ co_prog = p
    /\ co_state = [f \in CoFrames |->
                     IF p[f].type \in {"task", "waiter"} THEN "created" ELSE "none"]
    /\ continuation = [f \in CoFrames |-> 0]
    /\ value = [f \in CoFrames |-> 0]
    /\ exception = [f \in CoFrames |-> FALSE]
    /\ co_i = [f \in CoFrames |-> 0]
    /\ co_k = [f \in CoFrames |-> 0]
    /\ co_acc = [f \in CoFrames |-> 0]
    /\ posted = <<>>
    /\ timer = [f \in CoFrames |-> "none"]
    /\ co_run = [t \in CoThreads |-> 0]
    /\ co_depth = [t \in CoThreads |-> 0]
    /\ mpc = start
    /\ done = FALSE
    /\ out = 0
    /\ ep = FALSE
    /\ remaining = Cardinality({f \in CoFrames : p[f].type = "detached"})
    /\ shared = 0
    /\ spawned = 0
    /\ co_log = NoLog

---------------------------------------------------------------------------
(* The fork-join pool (src/thread_pool_forkjoin.cpp) and the program of    *)
(* src/test_forkjoin_workstealing.cpp.                                     *)

\* Worker w has worker_id w - 1; thread 0 is main.
FjWorkers == 1..FjThreads
FjMain == 0
FjAll == {FjMain} \cup FjWorkers
\* <<i, 0>> is the i-th outer task, <<i, j>> the j-th sub-task it submits.
FjTasks == (1..FjOuter) \X (0..FjInner)
FjNoTask == <<0, 0>>

\* The pool after its constructor (lines 8-22), main before its first submit.
FjStart(mainpc, workerpc) ==
    [queues |-> [w \in FjWorkers |-> <<>>],      \* queues[w - 1]->dq, front first
     queued_tasks |-> 0,
     rr |-> 0,
     stop |-> FALSE,
     cv |-> {},                                  \* workers blocked in cv.wait
     pc |-> [t \in FjAll |-> IF t = FjMain THEN mainpc ELSE workerpc],
     cur |-> [w \in FjWorkers |-> FjNoTask],     \* the task a worker is running
     sub |-> [w \in FjWorkers |-> 0],            \* sub-tasks it has submitted
     k |-> [w \in FjWorkers |-> 0],              \* steal_from_others' k
     next |-> 1,                                 \* main's loop variable i, plus 1
     runs |-> [x \in FjTasks |-> 0],             \* executions of each task
     threw |-> {}]                               \* tasks ended by an exception

\* No fork-join pool exists.
FjNone == FjStart("none", "none")

\* No coroutine program, no fork-join pool: the specifications of ThreadPool.
CoIdle == CoInit([f \in CoFrames |-> NoProg], "none") /\ fj = FjNone

IsWS == kind \in {WorkStealing, AdvancedElasticStealing}
IsElastic == kind \in {ElasticGlobal, AdvancedElasticStealing}
NQ == Len(ws_queues)

\* The mutexes of ThreadPool: queue_mutex_, ws_cv_mutex_ and ws_queues_[i]->m.
LkGlobal == <<"queue_mutex", 0>>
LkWs == <<"ws_cv_mutex", 0>>
LkQueue(i) == <<"m", i>>
LkMutexes == {LkGlobal, LkWs} \cup {LkQueue(i) : i \in 1..MaxLockThreads}

\* No mutex is held (owner 0), every worker is at the top of its loop, the
\* client outside of submit.
LkStart ==
    [owner |-> [m \in LkMutexes |-> 0],
     pc |-> [t \in Threads |-> IF t \in Workers THEN "top" ELSE "ext"],
     at |-> [t \in Threads |-> 0],      \* idx of submit, victim of a steal
     k |-> [t \in Threads |-> 0]]       \* steal_from_others_ws' k

\* The state right after constructor call c returned object o.
PoolInit(c, o) ==
    /\ lk = LkStart
    /\ ctor_call = c
    /\ ctor_out = o
    /\ kind = o.kind
    /\ min_threads = o.min_threads
    /\ max_threads = o.max_threads
    /\ active_threads = o.active_threads
    /\ idle_threads = 0
    /\ ws_min_threads = o.ws_min_threads
    /\ ws_max_threads = o.ws_max_threads
    /\ ws_active_threads = o.ws_active_threads
    /\ ws_idle_threads = 0
    /\ task_queue = <<>>
    /\ workers = o.workers
    /\ workers_end = Len(o.workers)
    /\ ws_queues = [i \in 1..o.nqueues |-> <<>>]
    /\ ws_running = o.ws_running
    /\ ws_threads = o.ws_running
    /\ ws_queued_tasks = 0
    /\ ws_rr = 0
    /\ stop = FALSE
    /\ queue_mutex = {}
    /\ ws_cv_mutex = {}
    /\ queue_cv = {}
    /\ ws_cv = {}
    /\ pc = [t \in Threads |->
               IF t \in Externals THEN "ext"
               ELSE IF o.ok /\ t <= o.started THEN "top" ELSE "none"]
    /\ cur = [t \in Workers |-> 0]
    /\ arg = [t \in Threads |-> 0]
    /\ loc = [t \in Threads |-> 0]
    /\ inner_done = [t \in Workers |-> 0]
    /\ dtor_it = 0
    /\ next_task = 0
    /\ body = [n \in TaskSpace |-> "none"]
    /\ runs = [n \in TaskSpace |-> 0]
    /\ outcome = [n \in TaskSpace |-> "none"]
    /\ null_returns = 0
    /\ at_stop = {}
    /\ terminated = FALSE

\* The pools of the pool specifications: every valid call up to MaxThreads.
ValidCalls == {c \in CtorCalls(MaxThreads) : Construct(c).ok}

Init == CoIdle /\ \E c \in ValidCalls : PoolInit(c, Construct(c))

---------------------------------------------------------------------------
(* Condition variables.                                                    *)

\* A notify_one that wakes nobody.  C8_AcceptedEventuallyRuns does not hold
\* of a pool whose submit notifies like this.
NotifyNone(cv) == {{}}

\* notify_one: one blocked thread, if there is any, is made runnable.
NotifyOne(cv) == IF cv = {} THEN {{}} ELSE {{w} : w \in cv}

\* pc after thread self moved to `next' and the threads of W were woken.
PcAfter(self, next, W) ==
    [t \in Threads |-> IF t = self THEN next
                       ELSE IF t \in W THEN "woken" ELSE pc[t]]

\* The pool object exists and the process runs.
Alive == ~terminated /\ pc[Owner] # "d_done"

\* The predicate of the global loops' waits (thread_pool.cpp:197, 219-221).
GlobalPred == stop \/ task_queue # <<>>
\* The predicate of worker_ws's waits (thread_pool.cpp:312-315, 339-342).
WsPred == stop \/ ws_queued_tasks > 0

---------------------------------------------------------------------------
(* submit                                                                  *)

\* The sub-tasks the body of a task submits to the pool that runs it: a
\* "nest" task KInner of them (test_thread_pool_unit.cpp:138-142), a "fork"
\* task MaxFork of them (fib_single_bench.cpp:123-124), a "join" task KInner
\* of them and it then blocks until they have been executed, as a task does
\* that calls sync_wait on a coroutine which posts its continuation to the
\* pool (coroutine_variants.cpp:27, 253-282).
Subs(b) ==
    IF b \in {"nest", "join"} THEN KInner
    ELSE IF b = "fork" THEN MaxFork
    ELSE 0

\* The ids a task takes: a nesting task reserves those of its sub-tasks.
TaskIds(b) == 1 + Subs(b)

\* The sub-tasks of task n.
SubTasks(n) == (n + 1)..(n + Subs(body[n]))

\* An external thread calls submit with a non-empty task of body b, at most
\* `limit' task ids being in use: the `if (!task)' test fails and the call
\* goes on into its kind's path.
SubmitCall(self, b, limit) ==
    /\ Alive
    /\ pc[self] = "ext"
    /\ Subs(b) > 0 => IsWS
    /\ next_task + TaskIds(b) <= limit
    /\ LET n == next_task + 1 IN
        /\ next_task' = next_task + TaskIds(b)
        /\ body' = [m \in TaskSpace |->
                      IF m = n THEN b
                      ELSE IF m > n /\ m < n + TaskIds(b) THEN "inc"
                      ELSE body[m]]
        /\ outcome' = [outcome EXCEPT ![n] = IF stop THEN "pending_stopped" ELSE "pending"]
        /\ arg' = [arg EXCEPT ![self] = n]
        /\ pc' = [pc EXCEPT ![self] = IF IsWS THEN "s_ws_stop" ELSE "s_g_lock"]
    /\ UNCHANGED <<cfgVars, gVars, wsVars, cur, loc, inner_done, dtor_it,
                   runs, null_returns, at_stop, stop, terminated>>

SubmitBegin(self, b) == SubmitCall(self, b, MaxTasks)

\* A submit that lets an empty task take a round-robin slot before it
\* returns.  C9_NullSubmitNoOp does not hold of it.
SubmitNullTakesSlot(self) ==
    /\ Alive
    /\ pc[self] = "ext"
    /\ null_returns < MaxNull
    /\ null_returns' = null_returns + 1
    /\ ws_rr' = SizeAdd(ws_rr, 1)
    /\ UNCHANGED <<cfgVars, gVars, ws_active_threads, ws_idle_threads, ws_queues,
                   ws_running, ws_threads, ws_queued_tasks, ws_cv_mutex, ws_cv,
                   thrVars, next_task, body, runs, outcome, at_stop, stop, terminated>>

\* submit with an empty std::function: `if (!task) return;'
SubmitNull(self) ==
    /\ Alive
    /\ pc[self] = "ext"
    /\ null_returns < MaxNull
    /\ null_returns' = null_returns + 1
    /\ UNCHANGED <<cfgVars, gVars, wsVars, thrVars, next_task, body, runs,
                   outcome, at_stop, stop, terminated>>

\* submit returns normally to its caller: an external thread goes on, a worker
\* is back in the body of the task it is executing.
SubmitReturns(self, W) ==
    /\ pc' = PcAfter(self, IF self \in Externals THEN "ext" ELSE "run", W)
    /\ arg' = [arg EXCEPT ![self] = 0]
    /\ loc' = [loc EXCEPT ![self] = 0]
    /\ outcome' = [outcome EXCEPT ![arg[self]] = IF stop THEN "late" ELSE "early"]
    /\ UNCHANGED <<cur, inner_done, dtor_it, null_returns>>

\* submit throws std::runtime_error("submit on stopped ThreadPool ..."): an
\* external caller gets it; in a worker it leaves the body of the task being
\* executed and is caught by worker_ws (thread_pool.cpp:300-305).
SubmitThrows(self) ==
    /\ pc' = [pc EXCEPT ![self] = IF self \in Externals THEN "ext" ELSE "top"]
    /\ arg' = [arg EXCEPT ![self] = 0]
    /\ loc' = [loc EXCEPT ![self] = 0]
    /\ outcome' = [outcome EXCEPT ![arg[self]] =
                      IF @ = "pending_stopped" THEN "rejected_stopped" ELSE "rejected"]
    /\ IF self \in Workers
       THEN /\ runs' = [runs EXCEPT ![cur[self]] = @ + 1]
            /\ cur' = [cur EXCEPT ![self] = 0]
            /\ inner_done' = [inner_done EXCEPT ![self] = 0]
       ELSE UNCHANGED <<runs, cur, inner_done>>
    /\ UNCHANGED <<dtor_it, null_returns>>

\* A critical section whose spawn decision does not look at idle_threads_.
\* C25_ElasticGlobalSpawn does not hold of it.
SubmitGlobalLockedIgnoresIdle(self) ==
    /\ Alive
    /\ pc[self] = "s_g_lock"
    /\ queue_mutex = {}
    /\ IF stop
       THEN /\ SubmitThrows(self)
            /\ UNCHANGED <<gVars>>
       ELSE /\ task_queue' = Append(task_queue, arg[self])
            /\ IF kind = ElasticGlobal /\ active_threads < max_threads
               THEN /\ active_threads' = active_threads + 1
                    /\ pc' = [pc EXCEPT ![self] = "s_g_emplace"]
               ELSE /\ UNCHANGED active_threads
                    /\ pc' = [pc EXCEPT ![self] = "s_g_notify"]
            /\ UNCHANGED <<idle_threads, workers, workers_end, queue_mutex, queue_cv,
                           cur, arg, loc, inner_done, dtor_it, runs, outcome, null_returns>>
    /\ UNCHANGED <<cfgVars, wsVars, next_task, body, at_stop, stop, terminated>>

\* thread_pool.cpp:169-182: the critical section of the global path.
SubmitGlobalLocked(self) ==
    /\ Alive
    /\ pc[self] = "s_g_lock"
    /\ queue_mutex = {}
    /\ IF stop
       THEN /\ SubmitThrows(self)
            /\ UNCHANGED <<gVars>>
       ELSE /\ task_queue' = Append(task_queue, arg[self])
            /\ IF kind = ElasticGlobal /\ idle_threads = 0 /\ active_threads < max_threads
               THEN /\ active_threads' = active_threads + 1
                    /\ pc' = [pc EXCEPT ![self] = "s_g_emplace"]
               ELSE /\ UNCHANGED active_threads
                    /\ pc' = [pc EXCEPT ![self] = "s_g_notify"]
            /\ UNCHANGED <<idle_threads, workers, workers_end, queue_mutex, queue_cv,
                           cur, arg, loc, inner_done, dtor_it, runs, outcome, null_returns>>
    /\ UNCHANGED <<cfgVars, wsVars, next_task, body, at_stop, stop, terminated>>

\* thread_pool.cpp:184-186, workers_.emplace_back: it reads the vector's end ...
SubmitEmplaceRead(self) ==
    /\ Alive
    /\ pc[self] = "s_g_emplace"
    /\ loc' = [loc EXCEPT ![self] = workers_end]
    /\ pc' = [pc EXCEPT ![self] = "s_g_emplace2"]
    /\ UNCHANGED <<cfgVars, gVars, wsVars, cur, arg, inner_done, dtor_it,
                   envVars, stop, terminated>>

\* The next thread number not yet used.
FreshThread == CHOOSE w \in Workers : pc[w] = "none" /\ \A v \in Workers : v < w => pc[v] # "none"

\* ... and constructs the std::thread (which starts worker_global_elastic) in
\* the slot after the end it read, then stores that end plus one.  No lock is
\* held: another thread's emplace_back may have used the same slot meanwhile.
SubmitEmplaceWrite(self) ==
    /\ Alive
    /\ pc[self] = "s_g_emplace2"
    /\ LET w == FreshThread
           at == loc[self] + 1 IN
        /\ workers' = IF at <= Len(workers) THEN [workers EXCEPT ![at] = w]
                       ELSE Append(workers, w)
        /\ workers_end' = at
        /\ pc' = [pc EXCEPT ![self] = "s_g_notify", ![w] = "top"]
    /\ loc' = [loc EXCEPT ![self] = 0]
    /\ UNCHANGED <<cfgVars, active_threads, idle_threads, task_queue, queue_mutex,
                   queue_cv, wsVars, cur, arg, inner_done, dtor_it, envVars, stop,
                   terminated>>

\* thread_pool.cpp:188: queue_cv_.notify_one(), and submit returns.
SubmitGlobalNotify(self) ==
    /\ Alive
    /\ pc[self] = "s_g_notify"
    /\ \E W \in NotifyOne(queue_cv) :
         /\ queue_cv' = queue_cv \ W
         /\ SubmitReturns(self, W)
    /\ UNCHANGED <<cfgVars, active_threads, idle_threads, task_queue, workers,
                   workers_end, queue_mutex, wsVars, next_task, body, runs, at_stop,
                   stop, terminated>>

\* thread_pool.cpp:5-8, 284-285: the thread-local pair of a thread.  A worker
\* of a work-stealing pool has set it to its pool and its slot (counted from
\* 0); the pool's owner never ran worker_ws; the client is a worker, in slot
\* 0, of another work-stealing pool.
tls_pool(t) ==
    IF t \in Workers THEN (IF IsWS THEN "this" ELSE "nullptr")
    ELSE IF t = Client THEN "other"
    ELSE "nullptr"

tls_worker_id(t) ==
    IF t \in Workers THEN (IF IsWS THEN t - 1 ELSE -1)
    ELSE IF t = Client THEN 0
    ELSE -1

\* An origin check that takes the worker id of any pool for one of this pool.
\* C28_RoutingScopedToPool does not hold of it.
WidAnyPool(t) == tls_worker_id(t)

\* Line 130: wid = (tls_pool == this) ? tls_worker_id : -1.
Wid(t) == IF tls_pool(t) = "this" THEN tls_worker_id(t) ELSE -1

\* A work-stealing path without the stop check of lines 126-128.
\* C5_SubmitAfterStopFails does not hold of it.
SubmitWsStopCheckAbsent(self) ==
    /\ Alive
    /\ pc[self] = "s_ws_stop"
    /\ pc' = [pc EXCEPT ![self] = IF Wid(self) >= 0 /\ Wid(self) < NQ
                                  THEN "s_ws_self_push" ELSE "s_ws_ext_push"]
    /\ UNCHANGED <<cfgVars, gVars, wsVars, cur, arg, loc, inner_done, dtor_it,
                   envVars, stop, terminated>>

\* thread_pool.cpp:125-131: the stop check of the work-stealing path (no lock
\* is held), then the choice between the caller's own queue and round-robin:
\* wid is the slot of a worker thread of this pool and -1 for any other thread.
SubmitWsStopCheck(self) ==
    /\ Alive
    /\ pc[self] = "s_ws_stop"
    /\ IF stop
       THEN SubmitThrows(self)
       ELSE /\ pc' = [pc EXCEPT ![self] = IF Wid(self) >= 0 /\ Wid(self) < NQ
                                          THEN "s_ws_self_push" ELSE "s_ws_ext_push"]
            /\ UNCHANGED <<cur, arg, loc, inner_done, dtor_it, runs, outcome, null_returns>>
    /\ UNCHANGED <<cfgVars, gVars, wsVars, next_task, body, at_stop, stop, terminated>>

\* A worker-origin push at the back of the caller's queue.
\* C21_SelfPushedLifo does not hold of it.
SubmitWsSelfPushBack(self) ==
    /\ Alive
    /\ pc[self] = "s_ws_self_push"
    /\ ws_queues' = [ws_queues EXCEPT ![Wid(self) + 1] = Append(@, arg[self])]
    /\ pc' = [pc EXCEPT ![self] = "s_ws_self_add"]
    /\ UNCHANGED <<cfgVars, gVars, ws_active_threads, ws_idle_threads, ws_running,
                   ws_threads, ws_queued_tasks, ws_rr, ws_cv_mutex, ws_cv, cur, arg,
                   loc, inner_done, dtor_it, envVars, stop, terminated>>

\* Lines 132-135: emplace_front on the caller's own queue, under its mutex.
SubmitWsSelfPush(self) ==
    /\ Alive
    /\ pc[self] = "s_ws_self_push"
    /\ ws_queues' = [ws_queues EXCEPT ![Wid(self) + 1] = <<arg[self]>> \o @]
    /\ pc' = [pc EXCEPT ![self] = "s_ws_self_add"]
    /\ UNCHANGED <<cfgVars, gVars, ws_active_threads, ws_idle_threads, ws_running,
                   ws_threads, ws_queued_tasks, ws_rr, ws_cv_mutex, ws_cv, cur, arg,
                   loc, inner_done, dtor_it, envVars, stop, terminated>>

\* Line 136: ws_queued_tasks_.fetch_add(1).
SubmitWsSelfAdd(self) ==
    /\ Alive
    /\ pc[self] = "s_ws_self_add"
    /\ ws_queued_tasks' = SizeAdd(ws_queued_tasks, 1)
    /\ pc' = [pc EXCEPT ![self] = "s_ws_self_notify"]
    /\ UNCHANGED <<cfgVars, gVars, ws_active_threads, ws_idle_threads, ws_queues,
                   ws_running, ws_threads, ws_rr, ws_cv_mutex, ws_cv, cur, arg, loc,
                   inner_done, dtor_it, envVars, stop, terminated>>

\* Lines 137-138 and 165-166: ws_cv_.notify_one(), and submit returns.
SubmitWsNotify(self) ==
    /\ Alive
    /\ pc[self] \in {"s_ws_self_notify", "s_ws_notify"}
    /\ \E W \in NotifyOne(ws_cv) :
         /\ ws_cv' = ws_cv \ W
         /\ SubmitReturns(self, W)
    /\ UNCHANGED <<cfgVars, gVars, ws_active_threads, ws_idle_threads, ws_queues,
                   ws_running, ws_threads, ws_queued_tasks, ws_rr, ws_cv_mutex,
                   next_task, body, runs, at_stop, stop, terminated>>

\* An external push that leaves the round-robin cursor where it was.
\* C27_SubmitRouting does not hold of it.
SubmitWsExtPushKeepsCursor(self) ==
    /\ Alive
    /\ pc[self] = "s_ws_ext_push"
    /\ ws_cv_mutex = {}
    /\ ws_cv_mutex' = {self}
    /\ LET idx == (ws_rr % NQ) + 1 IN
        /\ ws_queues' = [ws_queues EXCEPT ![idx] = Append(@, arg[self])]
        /\ loc' = [loc EXCEPT ![self] = idx]
    /\ pc' = [pc EXCEPT ![self] = "s_ws_ext_add"]
    /\ UNCHANGED <<cfgVars, gVars, ws_active_threads, ws_idle_threads, ws_running,
                   ws_threads, ws_queued_tasks, ws_rr, ws_cv, cur, arg, inner_done,
                   dtor_it, envVars, stop, terminated>>

\* Lines 143-149: lock ws_cv_mutex_, take idx = ws_rr_++ % size, emplace_back
\* on queue idx under that queue's mutex.
SubmitWsExtPush(self) ==
    /\ Alive
    /\ pc[self] = "s_ws_ext_push"
    /\ ws_cv_mutex = {}
    /\ ws_cv_mutex' = {self}
    /\ LET idx == (ws_rr % NQ) + 1 IN
        /\ ws_queues' = [ws_queues EXCEPT ![idx] = Append(@, arg[self])]
        /\ loc' = [loc EXCEPT ![self] = idx]
    /\ ws_rr' = SizeAdd(ws_rr, 1)
    /\ pc' = [pc EXCEPT ![self] = "s_ws_ext_add"]
    /\ UNCHANGED <<cfgVars, gVars, ws_active_threads, ws_idle_threads, ws_running,
                   ws_threads, ws_queued_tasks, ws_cv, cur, arg, inner_done, dtor_it,
                   envVars, stop, terminated>>

\* find_inactive_ws_slot (thread_pool.cpp:111-118): the first slot that is not
\* running, or the size when every slot runs (slots count from 1 here).
find_inactive_ws_slot ==
    IF \E i \in 1..Len(ws_running) : ~ws_running[i]
    THEN CHOOSE i \in 1..Len(ws_running) :
           ~ws_running[i] /\ \A j \in 1..(i - 1) : ws_running[j]
    ELSE Len(ws_running) + 1

\* Lines 150-155: fetch_add on the counter, the elastic spawn decision, unlock.
SubmitWsExtAdd(self) ==
    /\ Alive
    /\ pc[self] = "s_ws_ext_add"
    /\ ws_queued_tasks' = SizeAdd(ws_queued_tasks, 1)
    /\ ws_cv_mutex' = ws_cv_mutex \ {self}
    /\ LET spawn_id == IF kind = AdvancedElasticStealing /\ ws_idle_threads = 0
                          /\ ws_active_threads < ws_max_threads
                       THEN find_inactive_ws_slot
                       ELSE Len(ws_running) + 1 IN
        IF spawn_id <= Len(ws_running)
        THEN /\ loc' = [loc EXCEPT ![self] = spawn_id]
             /\ pc' = [pc EXCEPT ![self] = "s_ws_spawn"]
        ELSE /\ loc' = [loc EXCEPT ![self] = 0]
             /\ pc' = [pc EXCEPT ![self] = "s_ws_notify"]
    /\ UNCHANGED <<cfgVars, gVars, ws_active_threads, ws_idle_threads, ws_queues,
                   ws_running, ws_threads, ws_rr, ws_cv, cur, arg, inner_done,
                   dtor_it, envVars, stop, terminated>>

\* A spawn that neither re-checks the slot's flag nor joins the old handle.
\* C29_SlotOwnsLiveThread does not hold of it.
SubmitWsSpawnUnchecked(self) ==
    /\ Alive
    /\ pc[self] = "s_ws_spawn"
    /\ ws_cv_mutex = {}
    /\ LET id == loc[self] IN
        /\ ws_running' = [ws_running EXCEPT ![id] = TRUE]
        /\ ws_active_threads' = ws_active_threads + 1
        /\ ws_threads' = [ws_threads EXCEPT ![id] = TRUE]
        /\ pc' = [pc EXCEPT ![self] = "s_ws_notify", ![id] = "top"]
    /\ loc' = [loc EXCEPT ![self] = 0]
    /\ UNCHANGED <<cfgVars, gVars, ws_idle_threads, ws_queues, ws_queued_tasks, ws_rr,
                   ws_cv_mutex, ws_cv, cur, arg, inner_done, dtor_it, envVars, stop,
                   terminated>>

\* Lines 157-163 with spawn_ws_worker (96-109): re-check under ws_cv_mutex_,
\* join the slot's old handle (its thread has returned), start the new thread.
SubmitWsSpawn(self) ==
    /\ Alive
    /\ pc[self] = "s_ws_spawn"
    /\ ws_cv_mutex = {}
    /\ LET id == loc[self] IN
        IF ~ws_running[id] /\ ws_active_threads < ws_max_threads
        THEN /\ ws_threads[id] => pc[id] = "exited"
             /\ ws_running' = [ws_running EXCEPT ![id] = TRUE]
             /\ ws_active_threads' = ws_active_threads + 1
             /\ ws_threads' = [ws_threads EXCEPT ![id] = TRUE]
             /\ pc' = [pc EXCEPT ![self] = "s_ws_notify", ![id] = "top"]
        ELSE /\ pc' = [pc EXCEPT ![self] = "s_ws_notify"]
             /\ UNCHANGED <<ws_running, ws_active_threads, ws_threads>>
    /\ loc' = [loc EXCEPT ![self] = 0]
    /\ UNCHANGED <<cfgVars, gVars, ws_idle_threads, ws_queues, ws_queued_tasks, ws_rr,
                   ws_cv_mutex, ws_cv, cur, arg, inner_done, dtor_it, envVars, stop,
                   terminated>>

---------------------------------------------------------------------------
(* Executing a task (the `task()' call of the worker loops).               *)

\* A worker finishes the body of an "inc" task, or of a task that has
\* submitted all its sub-tasks (and, for a "join" task, has seen them executed).
RunTask(self) ==
    /\ Alive
    /\ pc[self] = "run"
    /\ \/ body[cur[self]] = "inc"
       \/ /\ Subs(body[cur[self]]) > 0
          /\ inner_done[self] >= Subs(body[cur[self]])
          /\ body[cur[self]] = "join" => \A m \in SubTasks(cur[self]) : runs[m] >= 1
    /\ runs' = [runs EXCEPT ![cur[self]] = @ + 1]
    /\ cur' = [cur EXCEPT ![self] = 0]
    /\ inner_done' = [inner_done EXCEPT ![self] = 0]
    /\ pc' = [pc EXCEPT ![self] = "top"]
    /\ UNCHANGED <<cfgVars, gVars, wsVars, arg, loc, dtor_it, next_task, body,
                   outcome, null_returns, at_stop, stop, terminated>>

\* The body throws.  worker_ws catches it (thread_pool.cpp:300-305);
\* worker_global_fixed and worker_global_elastic call task() with no handler
\* (thread_pool.cpp:208, 242), so the exception leaves the thread function and
\* std::terminate ends the process.
RunThrowingTask(self) ==
    /\ Alive
    /\ pc[self] = "run"
    /\ body[cur[self]] = "throw"
    /\ runs' = [runs EXCEPT ![cur[self]] = @ + 1]
    /\ IF IsWS
       THEN /\ cur' = [cur EXCEPT ![self] = 0]
            /\ pc' = [pc EXCEPT ![self] = "top"]
            /\ UNCHANGED terminated
       ELSE /\ terminated' = TRUE
            /\ UNCHANGED <<cur, pc>>
    /\ UNCHANGED <<cfgVars, gVars, wsVars, arg, loc, inner_done, dtor_it, next_task,
                   body, outcome, null_returns, at_stop, stop>>

\* The body of a task with sub-tasks calls pool.submit with its next sub-task.
RunNestedSubmit(self) ==
    /\ Alive
    /\ pc[self] = "run"
    /\ inner_done[self] < Subs(body[cur[self]])
    /\ LET n == cur[self] + inner_done[self] + 1 IN
        /\ arg' = [arg EXCEPT ![self] = n]
        /\ outcome' = [outcome EXCEPT ![n] = IF stop THEN "pending_stopped" ELSE "pending"]
    /\ inner_done' = [inner_done EXCEPT ![self] = @ + 1]
    /\ pc' = [pc EXCEPT ![self] = IF IsWS THEN "s_ws_stop" ELSE "s_g_lock"]
    /\ UNCHANGED <<cfgVars, gVars, wsVars, cur, loc, dtor_it, next_task, body, runs,
                   null_returns, at_stop, stop, terminated>>

---------------------------------------------------------------------------
(* worker_global_fixed (thread_pool.cpp:191-210)                           *)

\* std::condition_variable::wait: the thread, whose predicate was false under
\* the mutex, releases the mutex and blocks.
BlockGlobal(self) ==
    /\ Alive
    /\ ~IsWS
    /\ pc[self] = "about_wait"
    /\ queue_mutex' = queue_mutex \ {self}
    /\ queue_cv' = queue_cv \cup {self}
    /\ pc' = [pc EXCEPT ![self] = "waiting"]
    /\ UNCHANGED <<cfgVars, active_threads, idle_threads, task_queue, workers,
                   workers_end, wsVars, cur, arg, loc, inner_done, dtor_it, envVars,
                   stop, terminated>>

\* A fixed worker that takes the task at the back of the global queue.
\* C23_GlobalFifo does not hold of it.
WorkerGlobalFixedTakesBack(self) ==
    /\ Alive
    /\ kind = ClassicFixed
    /\ pc[self] \in {"top", "woken"}
    /\ queue_mutex = {}
    /\ IF ~GlobalPred
       THEN /\ queue_mutex' = {self}
            /\ pc' = [pc EXCEPT ![self] = "about_wait"]
            /\ UNCHANGED <<active_threads, task_queue, cur>>
       ELSE IF stop /\ task_queue = <<>>
       THEN /\ active_threads' = active_threads - 1
            /\ pc' = [pc EXCEPT ![self] = "exited"]
            /\ UNCHANGED <<queue_mutex, task_queue, cur>>
       ELSE /\ cur' = [cur EXCEPT ![self] = task_queue[Len(task_queue)]]
            /\ task_queue' = SubSeq(task_queue, 1, Len(task_queue) - 1)
            /\ pc' = [pc EXCEPT ![self] = "run"]
            /\ UNCHANGED <<queue_mutex, active_threads>>
    /\ UNCHANGED <<cfgVars, idle_threads, workers, workers_end, queue_cv, wsVars,
                   arg, loc, inner_done, dtor_it, envVars, stop, terminated>>

\* Lines 196-206: lock, (re)evaluate the wait's predicate; with it true either
\* leave on stop with an empty queue or take the front task.
WorkerGlobalFixed(self) ==
    /\ Alive
    /\ kind = ClassicFixed
    /\ pc[self] \in {"top", "woken"}
    /\ queue_mutex = {}
    /\ IF ~GlobalPred
       THEN /\ queue_mutex' = {self}
            /\ pc' = [pc EXCEPT ![self] = "about_wait"]
            /\ UNCHANGED <<active_threads, task_queue, cur>>
       ELSE IF stop /\ task_queue = <<>>
       THEN /\ active_threads' = active_threads - 1
            /\ pc' = [pc EXCEPT ![self] = "exited"]
            /\ UNCHANGED <<queue_mutex, task_queue, cur>>
       ELSE /\ cur' = [cur EXCEPT ![self] = Head(task_queue)]
            /\ task_queue' = Tail(task_queue)
            /\ pc' = [pc EXCEPT ![self] = "run"]
            /\ UNCHANGED <<queue_mutex, active_threads>>
    /\ UNCHANGED <<cfgVars, idle_threads, workers, workers_end, queue_cv, wsVars,
                   arg, loc, inner_done, dtor_it, envVars, stop, terminated>>

---------------------------------------------------------------------------
(* worker_global_elastic (thread_pool.cpp:212-244)                         *)

\* A retirement on idle timeout that does not look at min_threads_.
\* Neither C11_ElasticBounds nor C12_IdleDecay holds of it: the pool falls
\* below its minimum and stays there.
AfterWaitGlobalNoFloor(self, woke, idle) ==
    /\ idle_threads' = idle
    /\ IF (stop /\ task_queue = <<>>) \/ (~woke /\ task_queue = <<>>)
       THEN /\ active_threads' = active_threads - 1
            /\ pc' = [pc EXCEPT ![self] = "exited"]
            /\ UNCHANGED <<task_queue, cur>>
       ELSE IF task_queue = <<>>
       THEN /\ pc' = [pc EXCEPT ![self] = "top"]
            /\ UNCHANGED <<active_threads, task_queue, cur>>
       ELSE /\ cur' = [cur EXCEPT ![self] = Head(task_queue)]
            /\ task_queue' = Tail(task_queue)
            /\ pc' = [pc EXCEPT ![self] = "run"]
            /\ UNCHANGED active_threads

\* Lines 222-240, with `woke' what wait_for returned and idle_threads already
\* decremented to `idle'.
AfterWaitGlobal(self, woke, idle) ==
    /\ idle_threads' = idle
    /\ IF (stop /\ task_queue = <<>>)
          \/ (~woke /\ task_queue = <<>> /\ active_threads > min_threads)
       THEN /\ active_threads' = active_threads - 1
            /\ pc' = [pc EXCEPT ![self] = "exited"]
            /\ UNCHANGED <<task_queue, cur>>
       ELSE IF task_queue = <<>>
       THEN /\ pc' = [pc EXCEPT ![self] = "top"]
            /\ UNCHANGED <<active_threads, task_queue, cur>>
       ELSE /\ cur' = [cur EXCEPT ![self] = Head(task_queue)]
            /\ task_queue' = Tail(task_queue)
            /\ pc' = [pc EXCEPT ![self] = "run"]
            /\ UNCHANGED active_threads

\* Lines 217-221: lock, ++idle_threads_, wait_for evaluates its predicate.
WorkerGlobalElastic(self) ==
    /\ Alive
    /\ kind = ElasticGlobal
    /\ pc[self] = "top"
    /\ queue_mutex = {}
    /\ IF ~GlobalPred
       THEN /\ queue_mutex' = {self}
            /\ idle_threads' = idle_threads + 1
            /\ pc' = [pc EXCEPT ![self] = "about_wait"]
            /\ UNCHANGED <<active_threads, task_queue, cur>>
       ELSE /\ AfterWaitGlobal(self, TRUE, idle_threads)
            /\ UNCHANGED queue_mutex
    /\ UNCHANGED <<cfgVars, workers, workers_end, queue_cv, wsVars, arg, loc,
                   inner_done, dtor_it, envVars, stop, terminated>>

\* wait_for after a notification (or a spurious wake-up): it re-locks and
\* evaluates the predicate again.
WorkerGlobalElasticWoken(self) ==
    /\ Alive
    /\ kind = ElasticGlobal
    /\ pc[self] = "woken"
    /\ queue_mutex = {}
    /\ IF ~GlobalPred
       THEN /\ queue_mutex' = {self}
            /\ pc' = [pc EXCEPT ![self] = "about_wait"]
            /\ UNCHANGED <<active_threads, idle_threads, task_queue, cur>>
       ELSE /\ AfterWaitGlobal(self, TRUE, idle_threads - 1)
            /\ UNCHANGED queue_mutex
    /\ UNCHANGED <<cfgVars, workers, workers_end, queue_cv, wsVars, arg, loc,
                   inner_done, dtor_it, envVars, stop, terminated>>

\* idle_timeout_ expires in wait_for: it re-locks and returns the predicate.
WorkerGlobalElasticTimeout(self) ==
    /\ Alive
    /\ kind = ElasticGlobal
    /\ pc[self] = "waiting"
    /\ queue_mutex = {}
    /\ queue_cv' = queue_cv \ {self}
    /\ AfterWaitGlobal(self, GlobalPred, idle_threads - 1)
    /\ UNCHANGED <<cfgVars, workers, workers_end, queue_mutex, wsVars, arg, loc,
                   inner_done, dtor_it, envVars, stop, terminated>>

\* A spurious wake-up of a thread blocked in a condition variable.
SpuriousWake(self) ==
    /\ Alive
    /\ pc[self] = "waiting"
    /\ queue_cv' = queue_cv \ {self}
    /\ ws_cv' = ws_cv \ {self}
    /\ pc' = [pc EXCEPT ![self] = "woken"]
    /\ UNCHANGED <<cfgVars, active_threads, idle_threads, task_queue, workers,
                   workers_end, queue_mutex, ws_active_threads, ws_idle_threads,
                   ws_queues, ws_running, ws_threads, ws_queued_tasks, ws_rr,
                   ws_cv_mutex, cur, arg, loc, inner_done, dtor_it, envVars, stop,
                   terminated>>

---------------------------------------------------------------------------
(* worker_ws (thread_pool.cpp:283-346), pop_local_ws, steal_from_others_ws *)

\* Lines 287-296: leave the loop when stop is set and the counter reads 0.
WorkerWsTop(self) ==
    /\ Alive
    /\ IsWS
    /\ pc[self] = "top"
    /\ pc' = [pc EXCEPT ![self] = IF stop /\ ws_queued_tasks = 0
                                  THEN "exit_lock" ELSE "pop"]
    /\ UNCHANGED <<cfgVars, gVars, wsVars, cur, arg, loc, inner_done, dtor_it,
                   envVars, stop, terminated>>

\* Clearing the slot on the way out (lines 291-295, 321-325, 330-334).
LeaveSlot(self) ==
    IF ws_running[self]
    THEN /\ ws_running' = [ws_running EXCEPT ![self] = FALSE]
         /\ ws_active_threads' = ws_active_threads - 1
    ELSE UNCHANGED <<ws_running, ws_active_threads>>

\* Lines 290-295: lock ws_cv_mutex_, clear the slot, return.
WorkerWsExit(self) ==
    /\ Alive
    /\ pc[self] = "exit_lock"
    /\ ws_cv_mutex = {}
    /\ LeaveSlot(self)
    /\ pc' = [pc EXCEPT ![self] = "exited"]
    /\ UNCHANGED <<cfgVars, gVars, ws_idle_threads, ws_queues, ws_threads,
                   ws_queued_tasks, ws_rr, ws_cv_mutex, ws_cv, cur, arg, loc,
                   inner_done, dtor_it, envVars, stop, terminated>>

\* pop_local_ws (lines 246-257): under the queue's mutex take the front task
\* and fetch_sub the counter; with an empty queue go on to stealing, or, with
\* a single queue, to the idle wait (steal_from_others_ws returns at n <= 1).
WorkerWsPopLocal(self) ==
    /\ Alive
    /\ pc[self] = "pop"
    /\ IF ws_queues[self] = <<>>
       THEN /\ IF NQ <= 1
               THEN /\ pc' = [pc EXCEPT ![self] = "idle_lock"]
                    /\ UNCHANGED loc
               ELSE /\ pc' = [pc EXCEPT ![self] = "steal"]
                    /\ loc' = [loc EXCEPT ![self] = 1]
            /\ UNCHANGED <<ws_queues, ws_queued_tasks, cur>>
       ELSE /\ cur' = [cur EXCEPT ![self] = Head(ws_queues[self])]
            /\ ws_queues' = [ws_queues EXCEPT ![self] = Tail(@)]
            /\ ws_queued_tasks' = SizeSub(ws_queued_tasks, 1)
            /\ pc' = [pc EXCEPT ![self] = "run"]
            /\ UNCHANGED loc
    /\ UNCHANGED <<cfgVars, gVars, ws_active_threads, ws_idle_threads, ws_running,
                   ws_threads, ws_rr, ws_cv_mutex, ws_cv, arg, inner_done, dtor_it,
                   envVars, stop, terminated>>

\* Line 266: victim = (thief_id + k) % n, as a slot counted from 1.
Victim(thief, k) == ((thief - 1 + k) % NQ) + 1

\* A thread is at a critical section of queue v's mutex: a try_lock on that
\* mutex by another thread can find it taken.
QueueMutexBusy(v, self) ==
    \E t \in Threads \ {self} :
        \/ pc[t] = "pop" /\ t = v
        \/ pc[t] = "s_ws_self_push" /\ t = v
        \/ pc[t] = "steal" /\ Victim(t, loc[t]) = v
        \/ pc[t] = "s_ws_ext_push" /\ ws_cv_mutex = {} /\ (ws_rr % NQ) + 1 = v

\* A steal that copies the victim's back task and leaves it in the queue.
\* C2_NestedExactlyOnce does not hold of it.
WorkerWsStealKeeps(self) ==
    /\ Alive
    /\ pc[self] = "steal"
    /\ LET victim == Victim(self, loc[self]) IN
        \/ /\ ws_queues[victim] # <<>>
           /\ cur' = [cur EXCEPT ![self] = ws_queues[victim][Len(ws_queues[victim])]]
           /\ ws_queued_tasks' = SizeSub(ws_queued_tasks, 1)
           /\ pc' = [pc EXCEPT ![self] = "run"]
           /\ loc' = [loc EXCEPT ![self] = 0]
           /\ UNCHANGED ws_queues
        \/ /\ ws_queues[victim] = <<>> \/ QueueMutexBusy(victim, self)
           /\ IF loc[self] + 1 < NQ
              THEN /\ loc' = [loc EXCEPT ![self] = @ + 1]
                   /\ UNCHANGED pc
              ELSE /\ loc' = [loc EXCEPT ![self] = 0]
                   /\ pc' = [pc EXCEPT ![self] = "idle_lock"]
           /\ UNCHANGED <<ws_queues, ws_queued_tasks, cur>>
    /\ UNCHANGED <<cfgVars, gVars, ws_active_threads, ws_idle_threads, ws_running,
                   ws_threads, ws_rr, ws_cv_mutex, ws_cv, arg, inner_done, dtor_it,
                   envVars, stop, terminated>>

\* A steal that passes over the queues of slots that are not running.
\* C30_TaskOfIdleSlotRuns does not hold of it.
WorkerWsStealSkipsRetired(self) ==
    /\ Alive
    /\ pc[self] = "steal"
    /\ LET victim == Victim(self, loc[self]) IN
        \/ /\ ws_queues[victim] # <<>>
           /\ ws_running[victim]
           /\ cur' = [cur EXCEPT ![self] = ws_queues[victim][Len(ws_queues[victim])]]
           /\ ws_queues' = [ws_queues EXCEPT ![victim] = SubSeq(@, 1, Len(@) - 1)]
           /\ ws_queued_tasks' = SizeSub(ws_queued_tasks, 1)
           /\ pc' = [pc EXCEPT ![self] = "run"]
           /\ loc' = [loc EXCEPT ![self] = 0]
        \/ /\ ws_queues[victim] = <<>> \/ QueueMutexBusy(victim, self) \/ ~ws_running[victim]
           /\ IF loc[self] + 1 < NQ
              THEN /\ loc' = [loc EXCEPT ![self] = @ + 1]
                   /\ UNCHANGED pc
              ELSE /\ loc' = [loc EXCEPT ![self] = 0]
                   /\ pc' = [pc EXCEPT ![self] = "idle_lock"]
           /\ UNCHANGED <<ws_queues, ws_queued_tasks, cur>>
    /\ UNCHANGED <<cfgVars, gVars, ws_active_threads, ws_idle_threads, ws_running,
                   ws_threads, ws_rr, ws_cv_mutex, ws_cv, arg, inner_done, dtor_it,
                   envVars, stop, terminated>>

\* steal_from_others_ws, one probe (lines 265-278): try_lock on the victim; on
\* success with a non-empty queue take its back task and fetch_sub the counter.
WorkerWsSteal(self) ==
    /\ Alive
    /\ pc[self] = "steal"
    /\ LET victim == Victim(self, loc[self]) IN
        \/ /\ ws_queues[victim] # <<>>
           /\ cur' = [cur EXCEPT ![self] = ws_queues[victim][Len(ws_queues[victim])]]
           /\ ws_queues' = [ws_queues EXCEPT ![victim] = SubSeq(@, 1, Len(@) - 1)]
           /\ ws_queued_tasks' = SizeSub(ws_queued_tasks, 1)
           /\ pc' = [pc EXCEPT ![self] = "run"]
           /\ loc' = [loc EXCEPT ![self] = 0]
        \/ /\ ws_queues[victim] = <<>> \/ QueueMutexBusy(victim, self)
           /\ IF loc[self] + 1 < NQ
              THEN /\ loc' = [loc EXCEPT ![self] = @ + 1]
                   /\ UNCHANGED pc
              ELSE /\ loc' = [loc EXCEPT ![self] = 0]
                   /\ pc' = [pc EXCEPT ![self] = "idle_lock"]
           /\ UNCHANGED <<ws_queues, ws_queued_tasks, cur>>
    /\ UNCHANGED <<cfgVars, gVars, ws_active_threads, ws_idle_threads, ws_running,
                   ws_threads, ws_rr, ws_cv_mutex, ws_cv, arg, inner_done, dtor_it,
                   envVars, stop, terminated>>

\* What follows a wait with ws_idle_threads_ decremented to `idle': in the
\* fixed kind the loop goes round (line 344); in the elastic kind lines 317-336
\* with `woke' what wait_for returned.
AfterWaitWs(self, woke, idle) ==
    /\ ws_idle_threads' = idle
    /\ IF kind = AdvancedElasticStealing
          /\ \/ stop /\ ws_queued_tasks = 0
             \/ ~woke /\ ws_queued_tasks = 0 /\ ws_active_threads > ws_min_threads
       THEN /\ LeaveSlot(self)
            /\ pc' = [pc EXCEPT ![self] = "exited"]
       ELSE /\ pc' = [pc EXCEPT ![self] = "top"]
            /\ UNCHANGED <<ws_running, ws_active_threads>>

\* Lines 308-315 / 339-342: lock ws_cv_mutex_, ++ws_idle_threads_, the wait
\* evaluates its predicate.
WorkerWsIdle(self) ==
    /\ Alive
    /\ pc[self] = "idle_lock"
    /\ ws_cv_mutex = {}
    /\ IF ~WsPred
       THEN /\ ws_cv_mutex' = {self}
            /\ ws_idle_threads' = ws_idle_threads + 1
            /\ pc' = [pc EXCEPT ![self] = "about_wait"]
            /\ UNCHANGED <<ws_running, ws_active_threads>>
       ELSE /\ AfterWaitWs(self, TRUE, ws_idle_threads)
            /\ UNCHANGED ws_cv_mutex
    /\ UNCHANGED <<cfgVars, gVars, ws_queues, ws_threads, ws_queued_tasks, ws_rr,
                   ws_cv, cur, arg, loc, inner_done, dtor_it, envVars, stop, terminated>>

\* The wait releases ws_cv_mutex_ and blocks.
BlockWs(self) ==
    /\ Alive
    /\ IsWS
    /\ pc[self] = "about_wait"
    /\ ws_cv_mutex' = ws_cv_mutex \ {self}
    /\ ws_cv' = ws_cv \cup {self}
    /\ pc' = [pc EXCEPT ![self] = "waiting"]
    /\ UNCHANGED <<cfgVars, gVars, ws_active_threads, ws_idle_threads, ws_queues,
                   ws_running, ws_threads, ws_queued_tasks, ws_rr, cur, arg, loc,
                   inner_done, dtor_it, envVars, stop, terminated>>

\* The wait after a notification (or a spurious wake-up): re-lock, evaluate
\* the predicate again.
WorkerWsWoken(self) ==
    /\ Alive
    /\ IsWS
    /\ pc[self] = "woken"
    /\ ws_cv_mutex = {}
    /\ IF ~WsPred
       THEN /\ ws_cv_mutex' = {self}
            /\ pc' = [pc EXCEPT ![self] = "about_wait"]
            /\ UNCHANGED <<ws_idle_threads, ws_running, ws_active_threads>>
       ELSE /\ AfterWaitWs(self, TRUE, ws_idle_threads - 1)
            /\ UNCHANGED ws_cv_mutex
    /\ UNCHANGED <<cfgVars, gVars, ws_queues, ws_threads, ws_queued_tasks, ws_rr,
                   ws_cv, cur, arg, loc, inner_done, dtor_it, envVars, stop, terminated>>

\* A wait_for whose expiry is taken for a notification: the worker never
\* retires.  C12_IdleDecay does not hold of it.
WorkerWsTimeoutAsWoken(self) ==
    /\ Alive
    /\ kind = AdvancedElasticStealing
    /\ pc[self] = "waiting"
    /\ ws_cv_mutex = {}
    /\ ws_cv' = ws_cv \ {self}
    /\ AfterWaitWs(self, TRUE, ws_idle_threads - 1)
    /\ UNCHANGED <<cfgVars, gVars, ws_queues, ws_threads, ws_queued_tasks, ws_rr,
                   ws_cv_mutex, cur, arg, loc, inner_done, dtor_it, envVars, stop,
                   terminated>>

\* ws_idle_timeout_ expires in wait_for (elastic kind): re-lock, return the
\* predicate.
WorkerWsTimeout(self) ==
    /\ Alive
    /\ kind = AdvancedElasticStealing
    /\ pc[self] = "waiting"
    /\ ws_cv_mutex = {}
    /\ ws_cv' = ws_cv \ {self}
    /\ AfterWaitWs(self, WsPred, ws_idle_threads - 1)
    /\ UNCHANGED <<cfgVars, gVars, ws_queues, ws_threads, ws_queued_tasks, ws_rr,
                   ws_cv_mutex, cur, arg, loc, inner_done, dtor_it, envVars, stop,
                   terminated>>

---------------------------------------------------------------------------
(* ~ThreadPool (thread_pool.cpp:348-364)                                   *)

QueuedTasks == Range(task_queue) \cup UNION {Range(ws_queues[i]) : i \in 1..Len(ws_queues)}

\* Line 349: stop_.store(true).
DtorStop ==
    /\ Alive
    /\ pc[Owner] = "ext"
    /\ stop' = TRUE
    /\ at_stop' = QueuedTasks
    /\ pc' = [pc EXCEPT ![Owner] = "d_notify"]
    /\ UNCHANGED <<cfgVars, gVars, wsVars, cur, arg, loc, inner_done, dtor_it,
                   next_task, body, runs, outcome, null_returns, terminated>>

\* Lines 350-353: notify_all on both condition variables; the range-for over
\* workers_ takes its begin and end.
DtorNotify ==
    /\ Alive
    /\ pc[Owner] = "d_notify"
    /\ queue_cv' = {}
    /\ ws_cv' = {}
    /\ pc' = PcAfter(Owner, "d_join", queue_cv \cup ws_cv)
    /\ loc' = [loc EXCEPT ![Owner] = workers_end]
    /\ dtor_it' = 1
    /\ UNCHANGED <<cfgVars, active_threads, idle_threads, task_queue, workers,
                   workers_end, queue_mutex, ws_active_threads, ws_idle_threads,
                   ws_queues, ws_running, ws_threads, ws_queued_tasks, ws_rr,
                   ws_cv_mutex, cur, arg, inner_done, envVars, stop, terminated>>

\* Lines 353-357: join the next handle of workers_ (each is joinable).
DtorJoinGlobal ==
    /\ Alive
    /\ pc[Owner] = "d_join"
    /\ IF dtor_it > loc[Owner]
       THEN /\ pc' = [pc EXCEPT ![Owner] = "d_join_ws"]
            /\ dtor_it' = 1
            /\ loc' = [loc EXCEPT ![Owner] = 0]
       ELSE /\ pc[workers[dtor_it]] = "exited"
            /\ dtor_it' = dtor_it + 1
            /\ UNCHANGED <<pc, loc>>
    /\ UNCHANGED <<cfgVars, gVars, wsVars, cur, arg, inner_done, envVars, stop,
                   terminated>>

\* Lines 359-363: join the next slot of ws_threads_ if it is joinable; after
\* the last one the destructor's body returns.
DtorJoinWs ==
    /\ Alive
    /\ pc[Owner] = "d_join_ws"
    /\ IF dtor_it > Len(ws_threads)
       THEN /\ pc' = [pc EXCEPT ![Owner] = "d_done"]
            /\ dtor_it' = 0
            /\ UNCHANGED ws_threads
       ELSE /\ ws_threads[dtor_it] => pc[dtor_it] = "exited"
            /\ ws_threads' = [ws_threads EXCEPT ![dtor_it] = FALSE]
            /\ dtor_it' = dtor_it + 1
            /\ UNCHANGED pc
    /\ UNCHANGED <<cfgVars, gVars, ws_active_threads, ws_idle_threads, ws_queues,
                   ws_running, ws_queued_tasks, ws_rr, ws_cv_mutex, ws_cv, cur, arg,
                   loc, inner_done, envVars, stop, terminated>>

---------------------------------------------------------------------------
(* The specifications.  Spec: external threads submit tasks that increment *)
(* a counter, and the owner destroys the pool.  SpecThrow adds tasks that  *)
(* throw, SpecNest (work-stealing kinds) tasks that submit sub-tasks from  *)
(* inside their worker, SpecNull calls of submit with an empty task.       *)

SubmitGlobalStep(self) ==
    \/ SubmitGlobalLocked(self)
    \/ SubmitEmplaceRead(self)
    \/ SubmitEmplaceWrite(self)
    \/ SubmitGlobalNotify(self)

SubmitWsStep(self) ==
    \/ SubmitWsStopCheck(self)
    \/ SubmitWsExtPush(self)
    \/ SubmitWsExtAdd(self)
    \/ SubmitWsSpawn(self)
    \/ SubmitWsNotify(self)

WorkerGlobalStep(self) ==
    \/ WorkerGlobalFixed(self)
    \/ BlockGlobal(self)
    \/ WorkerGlobalElastic(self)
    \/ WorkerGlobalElasticWoken(self)

\* worker_ws apart from its return on stop.
WorkerWsStep(self) ==
    \/ WorkerWsTop(self)
    \/ WorkerWsPopLocal(self)
    \/ WorkerWsSteal(self)
    \/ WorkerWsIdle(self)
    \/ BlockWs(self)
    \/ WorkerWsWoken(self)

DtorStep ==
    \/ DtorStop
    \/ DtorNotify
    \/ DtorJoinGlobal
    \/ DtorJoinWs

\* The steps of the pool's own threads and of calls in progress.
GlobalNext ==
    \/ \E self \in Externals : SubmitGlobalStep(self)
    \/ \E self \in Workers : WorkerGlobalStep(self)
    \/ \E self \in Workers : WorkerGlobalElasticTimeout(self)

WsOpNext ==
    \/ \E self \in Externals : SubmitWsStep(self)
    \/ \E self \in Workers : WorkerWsStep(self)
    \/ \E self \in Workers : WorkerWsTimeout(self)

WsNext ==
    \/ WsOpNext
    \/ \E self \in Workers : WorkerWsExit(self)

Next ==
    \/ \E self \in Externals : SubmitBegin(self, "inc")
    \/ \E self \in Workers : RunTask(self)
    \/ GlobalNext
    \/ WsNext
    \/ \E self \in Workers : SpuriousWake(self)
    \/ DtorStep

Spec == Init /\ [][Next]_vars

NextThrow ==
    \/ Next
    \/ \E self \in Externals : SubmitBegin(self, "throw")
    \/ \E self \in Workers : RunThrowingTask(self)

SpecThrow == Init /\ [][NextThrow]_vars

InitWs ==
    /\ CoIdle
    /\ \E c \in ValidCalls : Construct(c).nqueues > 0 /\ PoolInit(c, Construct(c))

\* A worker's own call of submit: the steps of SubmitWsStep, and the push onto
\* its own queue.
NextNest ==
    \/ \E self \in Externals : SubmitBegin(self, "inc")
    \/ \E self \in Externals : SubmitBegin(self, "nest")
    \/ \E self \in Workers : RunTask(self)
    \/ \E self \in Workers : RunNestedSubmit(self)
    \/ \E self \in Workers : SubmitWsStopCheck(self)
    \/ \E self \in Workers : SubmitWsSelfPush(self)
    \/ \E self \in Workers : SubmitWsSelfAdd(self)
    \/ \E self \in Workers : SubmitWsNotify(self)
    \/ WsNext
    \/ \E self \in Workers : SpuriousWake(self)
    \/ DtorStep

SpecNest == InitWs /\ [][NextNest]_vars

NextNull ==
    \/ Next
    \/ \E self \in Externals : SubmitNull(self)

SpecNull == Init /\ [][NextNull]_vars

\* The constructors alone: a program that constructs one pool after another
\* with every argument combination up to MaxArg, valid or not.
InitCtor == CoIdle /\ \E c \in CtorCalls(MaxArg) : PoolInit(c, Construct(c))

\* The state a later constructor call leaves: PoolInit as an assignment.
PoolNew(c, o) ==
    /\ ctor_call' = c
    /\ ctor_out' = o
    /\ kind' = o.kind
    /\ min_threads' = o.min_threads
    /\ max_threads' = o.max_threads
    /\ active_threads' = o.active_threads
    /\ idle_threads' = 0
    /\ ws_min_threads' = o.ws_min_threads
    /\ ws_max_threads' = o.ws_max_threads
    /\ ws_active_threads' = o.ws_active_threads
    /\ ws_idle_threads' = 0
    /\ task_queue' = <<>>
    /\ workers' = o.workers
    /\ workers_end' = Len(o.workers)
    /\ ws_queues' = [i \in 1..o.nqueues |-> <<>>]
    /\ ws_running' = o.ws_running
    /\ ws_threads' = o.ws_running
    /\ ws_queued_tasks' = 0
    /\ ws_rr' = 0
    /\ stop' = FALSE
    /\ queue_mutex' = {}
    /\ ws_cv_mutex' = {}
    /\ queue_cv' = {}
    /\ ws_cv' = {}
    /\ pc' = [t \in Threads |->
               IF t \in Externals THEN "ext"
               ELSE IF o.ok /\ t <= o.started THEN "top" ELSE "none"]
    /\ cur' = [t \in Workers |-> 0]
    /\ arg' = [t \in Threads |-> 0]
    /\ loc' = [t \in Threads |-> 0]
    /\ inner_done' = [t \in Workers |-> 0]
    /\ dtor_it' = 0
    /\ next_task' = 0
    /\ body' = [n \in TaskSpace |-> "none"]
    /\ runs' = [n \in TaskSpace |-> 0]
    /\ outcome' = [n \in TaskSpace |-> "none"]
    /\ null_returns' = 0
    /\ at_stop' = {}
    /\ terminated' = FALSE
    /\ UNCHANGED <<coVars, fj, lk>>

CtorCall == \E c \in CtorCalls(MaxArg) : PoolNew(c, Construct(c))

SpecCtor == InitCtor /\ [][CtorCall]_vars

\* One step of thread self, whatever it is doing.  A spurious wakeup and the
\* start of a call by the environment are not among them: nothing obliges
\* them to happen.
ThreadStep(self) ==
    \/ SubmitGlobalStep(self)
    \/ SubmitWsStep(self)
    \/ SubmitWsSelfPush(self)
    \/ SubmitWsSelfAdd(self)
    \/ RunTask(self)
    \/ RunNestedSubmit(self)
    \/ WorkerGlobalStep(self)
    \/ WorkerGlobalElasticTimeout(self)
    \/ WorkerWsStep(self)
    \/ WorkerWsExit(self)
    \/ WorkerWsTimeout(self)

DtorRun == DtorNotify \/ DtorJoinGlobal \/ DtorJoinWs

\* Fair scheduling: a thread that can take a step infinitely often takes one
\* (a mutex that is free again and again is eventually acquired), and the
\* destructor, once started, goes on.
Fairness ==
    /\ \A self \in Threads : SF_vars(ThreadStep(self))
    /\ WF_vars(DtorRun)

FairSpec == Spec /\ Fairness

\* The pool while it is operational: the destructor is never started.
NextOp ==
    \/ \E self \in Externals : SubmitBegin(self, "inc")
    \/ \E self \in Externals : SubmitBegin(self, "nest")
    \/ \E self \in Workers : RunTask(self)
    \/ \E self \in Workers : RunNestedSubmit(self)
    \/ \E self \in Workers : SubmitWsStopCheck(self)
    \/ \E self \in Workers : SubmitWsSelfPush(self)
    \/ \E self \in Workers : SubmitWsSelfAdd(self)
    \/ \E self \in Workers : SubmitWsNotify(self)
    \/ GlobalNext
    \/ WsOpNext
    \/ \E self \in Workers : SpuriousWake(self)

FairSpecOp == Init /\ [][NextOp]_vars /\ \A self \in Threads : SF_vars(ThreadStep(self))

\* wait_for has an absolute deadline: a worker that is blocked in it again
\* and again, whatever wakes it in between, eventually sees it expire.
TimeoutStep(self) == WorkerGlobalElasticTimeout(self) \/ WorkerWsTimeout(self)

FairSpecIdle == FairSpecOp /\ \A self \in Workers : SF_vars(TimeoutStep(self))

\* The operational pool whose tasks may also wait for the sub-tasks they
\* submitted, under the same fair scheduling.
NextJoin ==
    \/ NextOp
    \/ \E self \in Externals : SubmitBegin(self, "join")

FairSpecJoin == Init /\ [][NextJoin]_vars /\ \A self \in Threads : SF_vars(ThreadStep(self))

\* The work-stealing pools in operation with up to MaxOrderTasks tasks, some
\* of which submit sub-tasks (KInner or MaxFork of them) from inside their
\* worker: enough for a worker queue to hold several tasks pushed from
\* either side.
NextOrder ==
    \/ \E self \in Externals : SubmitCall(self, "inc", MaxOrderTasks)
    \/ \E self \in Externals : SubmitCall(self, "nest", MaxOrderTasks)
    \/ \E self \in Externals : SubmitCall(self, "fork", MaxOrderTasks)
    \/ \E self \in Workers : RunTask(self)
    \/ \E self \in Workers : RunNestedSubmit(self)
    \/ \E self \in Workers : SubmitWsStopCheck(self)
    \/ \E self \in Workers : SubmitWsSelfPush(self)
    \/ \E self \in Workers : SubmitWsSelfAdd(self)
    \/ \E self \in Workers : SubmitWsNotify(self)
    \/ WsOpNext

SpecOrder == InitWs /\ [][NextOrder]_vars

---------------------------------------------------------------------------
(* The locks of ThreadPool, lock by lock: every acquisition and every      *)
(* release of queue_mutex_, ws_cv_mutex_ and the worker queues' mutexes in *)
(* submit and in the four worker loops is a step of its own.  What a step  *)
(* depends on besides the locks (stop, the queues' contents, the counters, *)
(* timeouts) is left open: each branch the code has can be taken.  Every   *)
(* worker slot of the pool has its thread running.                         *)

\* Everything the locks' steps leave alone.
lkSide == <<ctor_call, ctor_out, kind, min_threads, max_threads, ws_min_threads,
            ws_max_threads, gVars, wsVars, thrVars, envVars, stop, terminated,
            coVars, fj>>

\* The worker threads: one per queue (ws_queues_.size()), max_threads_ in
\* the global kinds.
LkSize == IF IsWS THEN NQ ELSE max_threads
LkWorkers == 1..LkSize

\* std::lock_guard / std::unique_lock: constructor and end of scope.
LkAcquire(t, m, to) == [lk EXCEPT !.owner[m] = t, !.pc[t] = to]
LkRelease(t, m, to) ==
    [lk EXCEPT !.owner[m] = 0, !.pc[t] = to, !.at[t] = 0, !.k[t] = 0]
LkGoto(t, to) == [lk EXCEPT !.pc[t] = to]

\* Where submit returns to: into the task that called it, or to the client.
LkCaller(t) == IF t \in Workers THEN "run" ELSE "ext"

\* Lines 120-131, 169: where thread t's call of submit first asks for a
\* mutex, by the pool's kind and tls_worker_id; when submit throws on stop
\* (lines 126-128) it has asked for none.
LkSubmitEntry(t) ==
    IF ~IsWS THEN "s_g_lock"
    ELSE IF t \in LkWorkers THEN "s_self_lock" ELSE "s_ws_lock"

\* Lines 192-196, 213-217, 287-298: the loop's next round.
LkWorkerTop(w) ==
    /\ w \in LkWorkers
    /\ lk.pc[w] = "top"
    /\ \/ ~IsWS /\ lk' = LkGoto(w, "g_lock")
       \/ IsWS /\ lk' = LkGoto(w, "exit_lock")
       \/ IsWS /\ lk' = LkGoto(w, "pop_lock")
    /\ UNCHANGED lkSide

\* Lines 195-206 and 216-240: the critical section of the global loops; the
\* wait releases queue_mutex_ and asks for it again; the section is left
\* for the task, for the next round or for good.
LkGlobalLoop(w) ==
    /\ w \in LkWorkers
    /\ \/ /\ lk.pc[w] = "g_lock"
          /\ lk.owner[LkGlobal] = 0
          /\ lk' = LkAcquire(w, LkGlobal, "g_cs")
       \/ /\ lk.pc[w] = "g_cs"
          /\ lk' = LkRelease(w, LkGlobal, "g_lock")
       \/ /\ lk.pc[w] = "g_cs"
          /\ \E to \in {"run", "exited"} \cup (IF kind = ElasticGlobal THEN {"top"} ELSE {}) :
               lk' = LkRelease(w, LkGlobal, to)
    /\ UNCHANGED lkSide

\* A worker that takes its task out of its queue and goes on holding the
\* queue's mutex.
LkPopLocalKeepsLock(w) ==
    /\ w \in LkWorkers
    /\ \/ /\ lk.pc[w] = "pop_lock"
          /\ lk.owner[LkQueue(w)] = 0
          /\ lk' = LkAcquire(w, LkQueue(w), "pop_cs")
       \/ /\ lk.pc[w] = "pop_cs"
          /\ lk' = LkGoto(w, "run")
       \/ /\ lk.pc[w] = "pop_cs"
          /\ lk' = IF LkSize <= 1 THEN LkRelease(w, LkQueue(w), "idle_lock")
                   ELSE [LkRelease(w, LkQueue(w), "steal") EXCEPT !.k[w] = 1]
    /\ UNCHANGED lkSide

\* pop_local_ws, lines 246-257, and the n <= 1 of lines 260-263.
LkPopLocal(w) ==
    /\ w \in LkWorkers
    /\ \/ /\ lk.pc[w] = "pop_lock"
          /\ lk.owner[LkQueue(w)] = 0
          /\ lk' = LkAcquire(w, LkQueue(w), "pop_cs")
       \/ /\ lk.pc[w] = "pop_cs"
          /\ lk' = LkRelease(w, LkQueue(w), "run")
       \/ /\ lk.pc[w] = "pop_cs"
          /\ lk' = IF LkSize <= 1 THEN LkRelease(w, LkQueue(w), "idle_lock")
                   ELSE [LkRelease(w, LkQueue(w), "steal") EXCEPT !.k[w] = 1]
    /\ UNCHANGED lkSide

\* Line 266.
LkVictim(w) == ((w - 1 + lk.k[w]) % LkSize) + 1

\* Lines 265 and 280: the next probe, or no task.
LkNextProbe(w) ==
    IF lk.k[w] + 1 < LkSize
    THEN [lk EXCEPT !.owner[LkQueue(lk.at[w])] = IF @ = w THEN 0 ELSE @,
                    !.at[w] = 0, !.k[w] = @ + 1, !.pc[w] = "steal"]
    ELSE [lk EXCEPT !.owner[LkQueue(lk.at[w])] = IF @ = w THEN 0 ELSE @,
                    !.at[w] = 0, !.k[w] = 0, !.pc[w] = "idle_lock"]

\* A thief that waits for the victim's mutex.
LkStealBlocking(w) ==
    /\ w \in LkWorkers
    /\ \/ /\ lk.pc[w] = "steal"
          /\ lk.at[w] = 0
          /\ lk' = [lk EXCEPT !.at[w] = LkVictim(w)]
       \/ /\ lk.pc[w] = "steal"
          /\ lk.at[w] # 0
          /\ lk.owner[LkQueue(lk.at[w])] = 0
          /\ lk' = LkAcquire(w, LkQueue(lk.at[w]), "steal_cs")
       \/ /\ lk.pc[w] = "steal_cs"
          /\ lk' = LkRelease(w, LkQueue(lk.at[w]), "run")
       \/ /\ lk.pc[w] = "steal_cs"
          /\ lk' = LkNextProbe(w)
    /\ UNCHANGED lkSide

\* steal_from_others_ws, lines 265-280: try_to_lock takes the mutex or does
\* not (it may fail on a free mutex too); with the mutex, the task from the
\* back or, the deque being empty, the next probe.
LkSteal(w) ==
    /\ w \in LkWorkers
    /\ \/ /\ lk.pc[w] = "steal"
          /\ lk.owner[LkQueue(LkVictim(w))] = 0
          /\ lk' = [LkAcquire(w, LkQueue(LkVictim(w)), "steal_cs")
                      EXCEPT !.at[w] = LkVictim(w)]
       \/ /\ lk.pc[w] = "steal"
          /\ lk' = [LkNextProbe(w) EXCEPT !.owner = lk.owner]
       \/ /\ lk.pc[w] = "steal_cs"
          /\ lk' = LkRelease(w, LkQueue(lk.at[w]), "run")
       \/ /\ lk.pc[w] = "steal_cs"
          /\ lk' = LkNextProbe(w)
    /\ UNCHANGED lkSide

\* Lines 290-295: the slot is cleared under ws_cv_mutex_.
LkWsExit(w) ==
    /\ w \in LkWorkers
    /\ \/ /\ lk.pc[w] = "exit_lock"
          /\ lk.owner[LkWs] = 0
          /\ lk' = LkAcquire(w, LkWs, "exit_cs")
       \/ /\ lk.pc[w] = "exit_cs"
          /\ lk' = LkRelease(w, LkWs, "exited")
    /\ UNCHANGED lkSide

\* Lines 308-344: the idle wait under ws_cv_mutex_, which releases the mutex
\* and asks for it again; the elastic kind can retire (lines 319-335).
LkWsIdle(w) ==
    /\ w \in LkWorkers
    /\ \/ /\ lk.pc[w] = "idle_lock"
          /\ lk.owner[LkWs] = 0
          /\ lk' = LkAcquire(w, LkWs, "idle_cs")
       \/ /\ lk.pc[w] = "idle_cs"
          /\ lk' = LkRelease(w, LkWs, "idle_lock")
       \/ /\ lk.pc[w] = "idle_cs"
          /\ \E to \in {"top"} \cup (IF kind = AdvancedElasticStealing
                                     THEN {"exited"} ELSE {}) :
               lk' = LkRelease(w, LkWs, to)
    /\ UNCHANGED lkSide

\* Lines 208, 242, 301: the task runs; it returns or calls submit.
LkRunTask(w) ==
    /\ w \in LkWorkers
    /\ lk.pc[w] = "run"
    /\ \/ lk' = LkGoto(w, "top")
       \/ lk' = LkGoto(w, LkSubmitEntry(w))
    /\ UNCHANGED lkSide

\* A thread that is no worker of the pool calls submit.
LkClientCall ==
    /\ lk.pc[Client] = "ext"
    /\ lk' = LkGoto(Client, LkSubmitEntry(Client))
    /\ UNCHANGED lkSide

\* Lines 132-138: the calling worker's own queue; counter and notify follow
\* with no lock held.
LkSubmitSelf(t) ==
    /\ \/ /\ lk.pc[t] = "s_self_lock"
          /\ lk.owner[LkQueue(t)] = 0
          /\ lk' = LkAcquire(t, LkQueue(t), "s_self_cs")
       \/ /\ lk.pc[t] = "s_self_cs"
          /\ lk' = LkRelease(t, LkQueue(t), LkCaller(t))
    /\ UNCHANGED lkSide

\* Lines 142-155: ws_cv_mutex_, inside it the mutex of queue idx.
LkSubmitExt(t) ==
    /\ \/ /\ lk.pc[t] = "s_ws_lock"
          /\ lk.owner[LkWs] = 0
          /\ \E idx \in 1..LkSize :
               lk' = [LkAcquire(t, LkWs, "s_idx_lock") EXCEPT !.at[t] = idx]
       \/ /\ lk.pc[t] = "s_idx_lock"
          /\ lk.owner[LkQueue(lk.at[t])] = 0
          /\ lk' = LkAcquire(t, LkQueue(lk.at[t]), "s_idx_cs")
       \/ /\ lk.pc[t] = "s_idx_cs"
          /\ lk' = LkRelease(t, LkQueue(lk.at[t]), "s_ws_cs")
       \/ /\ lk.pc[t] = "s_ws_cs"
          /\ \E to \in {LkCaller(t)} \cup (IF kind = AdvancedElasticStealing
                                           THEN {"s_spawn_lock"} ELSE {}) :
               lk' = LkRelease(t, LkWs, to)
    /\ UNCHANGED lkSide

\* Lines 157-166: the re-check and spawn_ws_worker under ws_cv_mutex_; the
\* notify follows with no lock held.
LkSubmitSpawn(t) ==
    /\ \/ /\ lk.pc[t] = "s_spawn_lock"
          /\ lk.owner[LkWs] = 0
          /\ lk' = LkAcquire(t, LkWs, "s_spawn_cs")
       \/ /\ lk.pc[t] = "s_spawn_cs"
          /\ lk' = LkRelease(t, LkWs, LkCaller(t))
    /\ UNCHANGED lkSide

\* Lines 170-188: queue_mutex_, its scope left by the throw of line 173 too;
\* emplace_back and notify follow with no lock held.
LkSubmitGlobal(t) ==
    /\ \/ /\ lk.pc[t] = "s_g_lock"
          /\ lk.owner[LkGlobal] = 0
          /\ lk' = LkAcquire(t, LkGlobal, "s_g_cs")
       \/ /\ lk.pc[t] = "s_g_cs"
          /\ lk' = LkRelease(t, LkGlobal, LkCaller(t))
    /\ UNCHANGED lkSide

\* Pools of up to MaxLockThreads threads.
InitLocks ==
    /\ CoIdle
    /\ \E c \in {d \in CtorCalls(MaxLockThreads) : Construct(d).ok} :
         PoolInit(c, Construct(c))

NextLocks ==
    \/ \E w \in Workers : LkWorkerTop(w)
    \/ \E w \in Workers : LkGlobalLoop(w)
    \/ \E w \in Workers : LkPopLocal(w)
    \/ \E w \in Workers : LkSteal(w)
    \/ \E w \in Workers : LkWsExit(w)
    \/ \E w \in Workers : LkWsIdle(w)
    \/ \E w \in Workers : LkRunTask(w)
    \/ LkClientCall
    \/ \E t \in Workers : LkSubmitSelf(t)
    \/ LkSubmitExt(Client)
    \/ LkSubmitSpawn(Client)
    \/ \E t \in Workers \cup {Client} : LkSubmitGlobal(t)

SpecLocks == InitLocks /\ [][NextLocks]_vars

---------------------------------------------------------------------------
(* The coroutine runtime: Task<T>, PoolScheduler, sleep_for, DetachedTask, *)
(* sync_wait.  A thread that resumes a frame runs its body up to the next  *)
(* suspension; when the frame on top of a thread's stack suspends or ends  *)
(* without a continuation, every resume() call below it returns without    *)
(* touching any frame, so the whole stack unwinds in that step.            *)

\* Everything the coroutine runtime leaves alone.
poolSide == <<ctor_call, ctor_out, kind, min_threads, max_threads, ws_min_threads,
              ws_max_threads, gVars, wsVars, thrVars, envVars, stop, terminated,
              fj, lk>>

\* The process runs a coroutine program and has not crashed.
CoLive == mpc \notin {"none", "crashed"}

\* Thread t is in the body of frame f.
InBody(t, f) == CoLive /\ f # 0 /\ co_run[t] = f /\ co_state[f] = "run"

NumDetached == Cardinality({f \in CoFrames : co_prog[f].type = "detached"})

\* sync_wait's mutex m (or DetachedBarrier::m) is free: the calling thread
\* holds it only between evaluating its wait predicate and blocking.
CallerMutexFree == mpc # "m_about_wait"

\* A scheduler that submits the resumption twice.
PostTwice(f) ==
    /\ posted' = Append(Append(posted, f), f)
    /\ co_log' = [co_log EXCEPT !.posts[f] = @ + 1]

\* The resumption of frame f is handed to ThreadPool::submit.
Post(f) ==
    /\ posted' = Append(posted, f)
    /\ co_log' = [co_log EXCEPT !.posts[f] = @ + 1]

\* Thread t leaves the coroutine it was executing: its resume() calls return.
Unwind(t) ==
    /\ co_run' = [co_run EXCEPT ![t] = 0]
    /\ co_depth' = [co_depth EXCEPT ![t] = 0]

\* co_await sched.schedule() (coro_runtime.h:22-31): await_ready is false,
\* await_suspend submits [h]{ h.resume(); } to the pool and returns.
CoAwaitSchedule(t) ==
    LET f == co_run[t] IN
    /\ InBody(t, f)
    /\ co_prog[f].type = "task"
    /\ co_i[f] < co_prog[f].yields
    /\ co_prog[f].via = "schedule"
    /\ co_state' = [co_state EXCEPT ![f] = "susp_sched"]
    /\ co_i' = [co_i EXCEPT ![f] = @ + 1]
    /\ Post(f)
    /\ Unwind(t)
    /\ UNCHANGED <<poolSide, co_prog, continuation, value, exception, co_k, co_acc,
                   timer, mpc, done, out, ep, remaining, shared, spawned>>

\* A sleep awaiter that posts the resumption at once, without a timer.
CoAwaitSleepPostsAtOnce(t) ==
    LET f == co_run[t] IN
    /\ InBody(t, f)
    /\ co_prog[f].type = "task"
    /\ co_i[f] < co_prog[f].yields
    /\ co_prog[f].via = "sleep"
    /\ co_state' = [co_state EXCEPT ![f] = "susp_sched"]
    /\ co_i' = [co_i EXCEPT ![f] = @ + 1]
    /\ Post(f)
    /\ Unwind(t)
    /\ UNCHANGED <<poolSide, co_prog, continuation, value, exception, co_k, co_acc,
                   timer, mpc, done, out, ep, remaining, shared, spawned>>

\* co_await sleep_for(us, sched) with us > 0 (coro_runtime.h:242-256):
\* await_suspend starts a detached timer thread and returns.
CoAwaitSleep(t) ==
    LET f == co_run[t] IN
    /\ InBody(t, f)
    /\ co_prog[f].type = "task"
    /\ co_i[f] < co_prog[f].yields
    /\ co_prog[f].via = "sleep"
    /\ co_state' = [co_state EXCEPT ![f] = "susp_sleep"]
    /\ co_i' = [co_i EXCEPT ![f] = @ + 1]
    /\ timer' = [timer EXCEPT ![f] = "sleeping"]
    /\ Unwind(t)
    /\ UNCHANGED <<poolSide, co_prog, continuation, value, exception, co_k, co_acc,
                   posted, mpc, done, out, ep, remaining, shared, spawned, co_log>>

\* The timer thread's std::this_thread::sleep_for(us) returns (line 250).
TimerElapses(f) ==
    /\ CoLive
    /\ timer[f] = "sleeping"
    /\ timer' = [timer EXCEPT ![f] = "slept"]
    /\ UNCHANGED <<poolSide, co_prog, co_state, continuation, value, exception, co_i,
                   co_k, co_acc, posted, co_run, co_depth, mpc, done, out, ep,
                   remaining, shared, spawned, co_log>>

\* The timer thread calls sched.post(h) (lines 36-38, 251) and ends.
TimerPosts(f) ==
    /\ CoLive
    /\ timer[f] = "slept"
    /\ timer' = [timer EXCEPT ![f] = "none"]
    /\ co_state' = [co_state EXCEPT ![f] = "susp_sched"]
    /\ Post(f)
    /\ UNCHANGED <<poolSide, co_prog, continuation, value, exception, co_i, co_k,
                   co_acc, co_run, co_depth, mpc, done, out, ep, remaining, shared,
                   spawned>>

\* A pool worker executes a submitted resumption: h.resume().
CoWorkerResume(t) ==
    /\ CoLive
    /\ co_run[t] = 0
    /\ \E i \in 1..Len(posted) :
         LET f == posted[i] IN
         /\ posted' = SubSeq(posted, 1, i - 1) \o SubSeq(posted, i + 1, Len(posted))
         /\ co_state' = [co_state EXCEPT ![f] = "run"]
         /\ co_run' = [co_run EXCEPT ![t] = f]
         /\ co_depth' = [co_depth EXCEPT ![t] = 1]
         /\ co_log' = [co_log EXCEPT !.resumed[f] = @ + 1]
    /\ UNCHANGED <<poolSide, co_prog, continuation, value, exception, co_i, co_k,
                   co_acc, timer, mpc, done, out, ep, remaining, shared, spawned>>

\* co_await child (Task::await_ready / await_suspend, lines 105-110): the
\* child has not run, so await_ready is false; await_suspend stores the
\* awaiting frame as the child's continuation and calls coro_.resume().
CoAwaitChild(t) ==
    LET f == co_run[t] IN
    /\ InBody(t, f)
    /\ co_prog[f].type \in {"task", "waiter"}
    /\ co_i[f] = co_prog[f].yields
    /\ co_k[f] < Len(co_prog[f].kids)
    /\ LET c == co_prog[f].kids[co_k[f] + 1] IN
        /\ co_state[c] = "created"
        /\ continuation' = [continuation EXCEPT ![c] = f]
        /\ co_state' = [co_state EXCEPT ![f] = "susp_child", ![c] = "run"]
        /\ co_run' = [co_run EXCEPT ![t] = c]
    /\ co_depth' = [co_depth EXCEPT ![t] = @ + 1]
    /\ co_log' = [co_log EXCEPT !.awaits[f] = @ + 1]
    /\ UNCHANGED <<poolSide, co_prog, value, exception, co_i, co_k, co_acc, posted,
                   timer, mpc, done, out, ep, remaining, shared, spawned>>

\* A body whose failure is not caught by the frame: it leaves resume().
CoFinishEscapes(t) ==
    LET f == co_run[t] IN
    /\ CoLive /\ f # 0
    /\ co_state[f] \in {"run", "raise"}
    /\ co_prog[f].type = "task"
    /\ co_state[f] = "run" =>
          co_i[f] = co_prog[f].yields /\ co_k[f] = Len(co_prog[f].kids)
    /\ co_state' = [co_state EXCEPT ![f] = "final"]
    /\ co_log' = [co_log EXCEPT !.escaped = TRUE]
    /\ Unwind(t)
    /\ UNCHANGED <<poolSide, co_prog, continuation, value, exception, co_i, co_k,
                   co_acc, posted, timer, mpc, done, out, ep, remaining, shared,
                   spawned>>

\* An await_resume that does not look at the promise.
AwaitResultEmpty(v, e) == 0

\* What await_resume (lines 112-118) gives the awaiter of frame f, whose
\* promise holds value v and exception flag e: the failure (-1), or the value.
AwaitResult(v, e) == IF e THEN -1 ELSE v

\* The body of task f ends: co_return stores the value (return_value, line
\* 72-75) or the exception in flight is stored by unhandled_exception (line
\* 77); then final_suspend: FinalAwaiter::await_suspend (lines 61-65) returns
\* the continuation, which is resumed in place of f, at its await_resume.
\* A body that never completes stays suspended with nobody to resume it.
CoFinish(t) ==
    LET f == co_run[t]
        raised == co_state[f] = "raise" \/ co_prog[f].result = "throw"
        v == IF raised THEN value[f] ELSE ReturnValue(f, co_acc[f])
        c == continuation[f]
    IN
    /\ CoLive /\ f # 0
    /\ co_state[f] \in {"run", "raise"}
    /\ co_prog[f].type = "task"
    /\ co_state[f] = "run" =>
          co_i[f] = co_prog[f].yields /\ co_k[f] = Len(co_prog[f].kids)
    /\ IF co_state[f] = "run" /\ co_prog[f].result = "never"
       THEN /\ co_state' = [co_state EXCEPT ![f] = "stuck"]
            /\ Unwind(t)
            /\ UNCHANGED <<value, exception, co_k, co_acc, co_log>>
       ELSE /\ value' = [value EXCEPT ![f] = v]
            /\ exception' = [exception EXCEPT ![f] = raised]
            /\ IF c = 0
               THEN /\ co_state' = [co_state EXCEPT ![f] = "final"]
                    /\ Unwind(t)
                    /\ UNCHANGED <<co_k, co_acc, co_log>>
               ELSE /\ co_state' = [co_state EXCEPT
                                      ![f] = "final",
                                      ![c] = IF raised THEN "raise" ELSE "run"]
                    /\ co_run' = [co_run EXCEPT ![t] = c]
                    /\ co_k' = [co_k EXCEPT ![c] = @ + 1]
                    /\ co_acc' = [co_acc EXCEPT ![c] = IF raised THEN @ ELSE @ + v]
                    /\ co_log' = [co_log EXCEPT
                                    !.cont[c] = @ + 1,
                                    !.got[c] = Append(@, AwaitResult(v, raised))]
                    /\ UNCHANGED co_depth
    /\ UNCHANGED <<poolSide, co_prog, continuation, co_i, posted, timer, mpc, done,
                   out, ep, remaining, shared, spawned>>

\* sync_wait (lines 262-295): the waiter coroutine is created and started.
SyncWaitStart ==
    /\ mpc = "m_call"
    /\ co_state' = [co_state EXCEPT ![WaiterFrame] = "run"]
    /\ co_run' = [co_run EXCEPT ![CoCaller] = WaiterFrame]
    /\ co_depth' = [co_depth EXCEPT ![CoCaller] = 1]
    /\ mpc' = "m_lock"
    /\ UNCHANGED <<poolSide, co_prog, continuation, value, exception, co_i, co_k,
                   co_acc, posted, timer, done, out, ep, remaining, shared, spawned,
                   co_log>>

\* The waiter after `co_await task' (lines 270-278): out gets the value, or
\* the catch block stores the failure in ep; then done = true under m.
WaiterSetsDone(t) ==
    LET f == co_run[t] IN
    /\ CoLive /\ f # 0
    /\ co_prog[f].type = "waiter"
    /\ co_state[f] \in {"run", "raise"}
    /\ co_k[f] = Len(co_prog[f].kids)
    /\ CallerMutexFree
    /\ out' = IF co_state[f] = "raise" THEN out ELSE co_acc[f]
    /\ ep' = (co_state[f] = "raise")
    /\ done' = TRUE
    /\ co_state' = [co_state EXCEPT ![f] = "w_notify"]
    /\ UNCHANGED <<poolSide, co_prog, continuation, value, exception, co_i, co_k,
                   co_acc, posted, timer, co_run, co_depth, mpc, remaining, shared,
                   spawned, co_log>>

\* Line 280: cv.notify_one().
WaiterNotifies(t) ==
    LET f == co_run[t] IN
    /\ CoLive /\ f # 0
    /\ co_state[f] = "w_notify"
    /\ mpc' = IF mpc = "m_waiting" THEN "m_lock" ELSE mpc
    /\ co_state' = [co_state EXCEPT ![f] = "w_return"]
    /\ UNCHANGED <<poolSide, co_prog, continuation, value, exception, co_i, co_k,
                   co_acc, posted, timer, co_run, co_depth, done, out, ep, remaining,
                   shared, spawned, co_log>>

\* Line 281: co_return; the waiter has no continuation, so its final suspend
\* returns to whoever resumed it.
WaiterReturns(t) ==
    LET f == co_run[t] IN
    /\ CoLive /\ f # 0
    /\ co_state[f] = "w_return"
    /\ co_state' = [co_state EXCEPT ![f] = "final"]
    /\ Unwind(t)
    /\ UNCHANGED <<poolSide, co_prog, continuation, value, exception, co_i, co_k,
                   co_acc, posted, timer, mpc, done, out, ep, remaining, shared,
                   spawned, co_log>>

\* A wait without predicate that takes any wake-up for the event.
CallerPredTrue == TRUE

\* The predicate of the calling thread's wait: sync_wait's `done' (line 288),
\* DetachedBarrier's `remaining == 0' (coroutine_variants.cpp:368-369).
CallerPred ==
    IF co_prog[WaiterFrame].type = "waiter" THEN done ELSE remaining = 0

\* cv.wait(lock, pred): lock the mutex and evaluate the predicate.
CallerLocks ==
    /\ mpc = "m_lock"
    /\ co_run[CoCaller] = 0
    /\ mpc' = IF ~CallerPred THEN "m_about_wait"
              ELSE IF co_prog[WaiterFrame].type = "waiter" THEN "m_destroy"
              ELSE "m_returned"
    /\ UNCHANGED <<poolSide, co_prog, co_state, continuation, value, exception, co_i,
                   co_k, co_acc, posted, timer, co_run, co_depth, done, out, ep,
                   remaining, shared, spawned, co_log>>

\* ... with the predicate false the wait releases the mutex and blocks.
CallerBlocks ==
    /\ mpc = "m_about_wait"
    /\ mpc' = "m_waiting"
    /\ UNCHANGED <<poolSide, co_prog, co_state, continuation, value, exception, co_i,
                   co_k, co_acc, posted, timer, co_run, co_depth, done, out, ep,
                   remaining, shared, spawned, co_log>>

\* A spurious wake-up of the calling thread.
CallerSpuriousWake ==
    /\ mpc = "m_waiting"
    /\ mpc' = "m_lock"
    /\ UNCHANGED <<poolSide, co_prog, co_state, continuation, value, exception, co_i,
                   co_k, co_acc, posted, timer, co_run, co_depth, done, out, ep,
                   remaining, shared, spawned, co_log>>

\* sync_wait returns (lines 290-295): its locals are destroyed, the waiter's
\* frame (root) among them.  If another thread is still executing the waiter
\* (it has set done but not reached its final suspend) that thread goes on in
\* a destroyed frame and notifies a destroyed condition variable: undefined
\* behaviour, which the process either survives or does not.
SyncWaitReturns ==
    /\ mpc = "m_destroy"
    /\ IF \E t \in CoThreads : co_run[t] = WaiterFrame
       THEN /\ mpc' \in {"m_returned", "crashed"}
            /\ UNCHANGED co_state
       ELSE /\ mpc' = "m_returned"
            /\ co_state' = [co_state EXCEPT ![WaiterFrame] = "destroyed"]
    /\ UNCHANGED <<poolSide, co_prog, continuation, value, exception, co_i, co_k,
                   co_acc, posted, timer, co_run, co_depth, done, out, ep, remaining,
                   shared, spawned, co_log>>

\* A call of detached_counter (coroutine_variants.cpp:373-382, 440-442):
\* DetachedTask's initial_suspend is suspend_never (coro_runtime.h:212), so
\* the body starts at once on the calling thread.
SpawnDetached ==
    /\ mpc = "m_spawn"
    /\ co_run[CoCaller] = 0
    /\ spawned < NumDetached
    /\ LET f == spawned + 1 IN
        /\ co_state' = [co_state EXCEPT ![f] = "run"]
        /\ co_run' = [co_run EXCEPT ![CoCaller] = f]
    /\ co_depth' = [co_depth EXCEPT ![CoCaller] = 1]
    /\ spawned' = spawned + 1
    /\ UNCHANGED <<poolSide, co_prog, continuation, value, exception, co_i, co_k,
                   co_acc, posted, timer, mpc, done, out, ep, remaining, shared,
                   co_log>>

\* Every detached task was called: the caller goes into barrier.wait().
BarrierWait ==
    /\ mpc = "m_spawn"
    /\ co_run[CoCaller] = 0
    /\ spawned = NumDetached
    /\ mpc' = "m_lock"
    /\ UNCHANGED <<poolSide, co_prog, co_state, continuation, value, exception, co_i,
                   co_k, co_acc, posted, timer, co_run, co_depth, done, out, ep,
                   remaining, shared, spawned, co_log>>

\* One round of detached_counter (coroutine_variants.cpp:377-380):
\* shared.fetch_add(1), then co_await sched.schedule().
DetachedRound(t) ==
    LET f == co_run[t] IN
    /\ InBody(t, f)
    /\ co_prog[f].type = "detached"
    /\ co_i[f] < co_prog[f].yields
    /\ shared' = shared + 1
    /\ co_state' = [co_state EXCEPT ![f] = "susp_sched"]
    /\ co_i' = [co_i EXCEPT ![f] = @ + 1]
    /\ Post(f)
    /\ Unwind(t)
    /\ UNCHANGED <<poolSide, co_prog, continuation, value, exception, co_k, co_acc,
                   timer, mpc, done, out, ep, remaining, spawned>>

\* barrier.mark_done() (coroutine_variants.cpp:357-365) under the barrier's
\* mutex, then the body ends; final_suspend is suspend_never, so the frame
\* destroys itself.
DetachedMarkDone(t) ==
    LET f == co_run[t] IN
    /\ InBody(t, f)
    /\ co_prog[f].type = "detached"
    /\ co_i[f] = co_prog[f].yields
    /\ CallerMutexFree
    /\ remaining' = IF remaining > 0 THEN remaining - 1 ELSE remaining
    /\ mpc' = IF remaining = 1 /\ mpc = "m_waiting" THEN "m_lock" ELSE mpc
    /\ co_state' = [co_state EXCEPT ![f] = "gone"]
    /\ Unwind(t)
    /\ UNCHANGED <<poolSide, co_prog, continuation, value, exception, co_i, co_k,
                   co_acc, posted, timer, done, out, ep, shared, spawned, co_log>>

\* A step of thread t inside a coroutine.
CoBodyStep(t) ==
    \/ CoAwaitSchedule(t)
    \/ CoAwaitSleep(t)
    \/ CoAwaitChild(t)
    \/ CoFinish(t)
    \/ WaiterSetsDone(t)
    \/ WaiterNotifies(t)
    \/ WaiterReturns(t)

CallerStep ==
    \/ SyncWaitStart
    \/ CallerLocks
    \/ CallerBlocks
    \/ SyncWaitReturns

\* sync_wait on a task, on a pool of CoPoolSize workers.
InitSync ==
    /\ \E p \in SyncPrograms : CoInit(p, "m_call")
    /\ fj = FjNone
    /\ LET c == [ctor |-> "fixed", a |-> CoPoolSize, b |-> 0, k |-> ClassicFixed]
       IN PoolInit(c, Construct(c))

NextSync ==
    \/ \E t \in CoThreads : CoBodyStep(t)
    \/ \E t \in CoWorkers : CoWorkerResume(t)
    \/ \E f \in CoFrames : TimerElapses(f)
    \/ \E f \in CoFrames : TimerPosts(f)
    \/ CallerStep
    \/ CallerSpuriousWake

SpecSync == InitSync /\ [][NextSync]_vars

\* Fair scheduling of the threads, the pool and the timers.  A thread that
\* wants the mutex gets it although the waiting caller may take it again and
\* again (strong fairness).
FairSpecSync ==
    /\ SpecSync
    /\ \A t \in CoThreads : SF_vars(CoBodyStep(t))
    /\ \A t \in CoWorkers : WF_vars(CoWorkerResume(t))
    /\ \A f \in CoFrames : WF_vars(TimerElapses(f) \/ TimerPosts(f))
    /\ WF_vars(CallerStep)

\* sync_wait called from inside a task of the pool: the calling thread is one
\* of the pool's workers.  It is inside task() (thread_pool.cpp:208) until
\* sync_wait returns, so it takes nothing from the queue meanwhile; the
\* workers left to execute resumptions are the others.

\* Every worker of the pool goes on taking tasks, the calling one too.
FreeWorkersAll == 1..active_threads

FreeWorkers == 1..(active_threads - 1)

CoFreeWorkerResume(t) ==
    /\ t \in FreeWorkers
    /\ CoWorkerResume(t)

InitSyncInWorker ==
    /\ \E p \in SyncPrograms : CoInit(p, "m_call")
    /\ fj = FjNone
    /\ \E n \in 1..CoPoolSize :
         LET c == [ctor |-> "fixed", a |-> n, b |-> 0, k |-> ClassicFixed]
         IN PoolInit(c, Construct(c))

NextSyncInWorker ==
    \/ \E t \in CoThreads : CoBodyStep(t)
    \/ \E t \in CoWorkers : CoFreeWorkerResume(t)
    \/ \E f \in CoFrames : TimerElapses(f)
    \/ \E f \in CoFrames : TimerPosts(f)
    \/ CallerStep
    \/ CallerSpuriousWake

SpecSyncInWorker == InitSyncInWorker /\ [][NextSyncInWorker]_vars

\* Detached tasks and their barrier (coroutine_variants.cpp:437-443).
InitDetached ==
    /\ \E p \in DetachedPrograms : CoInit(p, "m_spawn")
    /\ fj = FjNone
    /\ LET c == [ctor |-> "fixed", a |-> CoPoolSize, b |-> 0, k |-> ClassicFixed]
       IN PoolInit(c, Construct(c))

NextDetached ==
    \/ SpawnDetached
    \/ BarrierWait
    \/ \E t \in CoThreads : DetachedRound(t)
    \/ \E t \in CoThreads : DetachedMarkDone(t)
    \/ \E t \in CoWorkers : CoWorkerResume(t)
    \/ CallerLocks
    \/ CallerBlocks
    \/ CallerSpuriousWake

SpecDetached == InitDetached /\ [][NextDetached]_vars

---------------------------------------------------------------------------
(* WorkStealingThreadPool of src/thread_pool_forkjoin.cpp, used as in       *)
(* src/test_forkjoin_workstealing.cpp: main submits the outer tasks and     *)
(* destroys the pool; each outer task submits its sub-tasks from its worker.*)

\* Everything but the fork-join pool.
fjSide == <<ctor_call, ctor_out, kind, min_threads, max_threads, ws_min_threads,
            ws_max_threads, gVars, wsVars, thrVars, envVars, stop, terminated,
            coVars, lk>>

\* The workers the constructor has started (lines 18-21) and their number,
\* queues.size().
FjPoolWorkers == {w \in FjWorkers : fj.pc[w] # "none"}
FjSize == Cardinality(FjPoolWorkers)

\* The record f with thread t at `to'.
FjAt(f, t, to) == [f EXCEPT !.pc[t] = to]

\* cv.notify_one() on the pool f: one blocked worker, if there is any, leaves
\* its wait and will evaluate the predicate again.
FjNotifyOne(f) ==
    IF f.cv = {} THEN {f}
    ELSE {[f EXCEPT !.cv = @ \ {w}, !.pc[w] = "wait"] : w \in f.cv}

\* cv.notify_all().
FjNotifyAll(f) ==
    [f EXCEPT !.cv = {},
              !.pc = [t \in FjAll |-> IF t \in f.cv THEN "wait" ELSE f.pc[t]]]

\* submit from main, lines 24-30: the task is not empty; the stop check.
FjExtCheck ==
    /\ fj.pc[FjMain] = "m_submit"
    /\ fj.next <= FjOuter
    /\ fj' = FjAt(fj, FjMain, IF fj.stop THEN "m_threw" ELSE "m_push")
    /\ UNCHANGED fjSide

\* Lines 33-34 and 46-51: tls_worker_id is -1 on main; round-robin index,
\* emplace_back under the queue's mutex.
FjExtPush ==
    /\ fj.pc[FjMain] = "m_push"
    /\ LET idx == (fj.rr % FjSize) + 1 IN
       fj' = [fj EXCEPT !.rr = SizeAdd(@, 1),
                        !.queues[idx] = Append(@, <<fj.next, 0>>),
                        !.pc[FjMain] = "m_add"]
    /\ UNCHANGED fjSide

\* Line 52: queued_tasks.fetch_add(1).
FjExtAdd ==
    /\ fj.pc[FjMain] = "m_add"
    /\ fj' = [fj EXCEPT !.queued_tasks = SizeAdd(@, 1), !.pc[FjMain] = "m_notify"]
    /\ UNCHANGED fjSide

\* Line 53: cv.notify_one(); then the next round of main's loop, or, after
\* the last one, `return 0', which destroys the pool.
FjExtNotify ==
    /\ fj.pc[FjMain] = "m_notify"
    /\ fj' \in FjNotifyOne([fj EXCEPT
                              !.next = @ + 1,
                              !.pc[FjMain] = IF fj.next = FjOuter THEN "m_dtor"
                                             ELSE "m_submit"])
    /\ UNCHANGED fjSide

\* ~WorkStealingThreadPool, line 118: stop.store(true).
FjDtorStop ==
    /\ fj.pc[FjMain] = "m_dtor"
    /\ fj' = [fj EXCEPT !.stop = TRUE, !.pc[FjMain] = "m_notify_all"]
    /\ UNCHANGED fjSide

\* Line 119: cv.notify_all(), without cv_mutex.
FjDtorNotify ==
    /\ fj.pc[FjMain] = "m_notify_all"
    /\ fj' = FjNotifyAll(FjAt(fj, FjMain, "m_join"))
    /\ UNCHANGED fjSide

\* Lines 121-123: every worker is joined; the destructor returns.
FjDtorJoin ==
    /\ fj.pc[FjMain] = "m_join"
    /\ \A w \in FjWorkers : fj.pc[w] = "exited"
    /\ fj' = FjAt(fj, FjMain, "m_done")
    /\ UNCHANGED fjSide

\* worker_loop, lines 90-95: leave when stop is set and nothing is queued.
FjTop(w) ==
    /\ fj.pc[w] = "top"
    /\ fj' = FjAt(fj, w, IF fj.stop /\ fj.queued_tasks = 0 THEN "exited" ELSE "pop")
    /\ UNCHANGED fjSide

\* pop_local, lines 56-65; with an empty deque steal_from_others begins
\* (lines 68-72), which gives up at once when there is one queue.
FjPopLocal(w) ==
    /\ fj.pc[w] = "pop"
    /\ fj' = IF fj.queues[w] # <<>>
             THEN [fj EXCEPT !.queues[w] = Tail(@),
                             !.queued_tasks = SizeSub(@, 1),
                             !.cur[w] = Head(fj.queues[w]),
                             !.sub[w] = 0,
                             !.pc[w] = "run"]
             ELSE IF FjSize <= 1 THEN FjAt(fj, w, "wait")
             ELSE [fj EXCEPT !.k[w] = 1, !.pc[w] = "steal"]
    /\ UNCHANGED fjSide

\* The victim of thief w at probe k (line 73).
FjVictim(w, k) == ((w - 1 + k) % FjSize) + 1

\* Another thread is at a critical section of queue v's mutex, so that a
\* try_lock on it can fail.
FjQueueBusy(v, self) ==
    \E t \in FjAll \ {self} :
        \/ fj.pc[t] = "pop" /\ t = v
        \/ fj.pc[t] = "sub_push" /\ t = v
        \/ fj.pc[t] = "steal" /\ FjVictim(t, fj.k[t]) = v
        \/ fj.pc[t] = "m_push" /\ (fj.rr % FjSize) + 1 = v

\* One round of steal_from_others' loop, lines 72-83.
FjSteal(w) ==
    /\ fj.pc[w] = "steal"
    /\ LET victim == FjVictim(w, fj.k[w])
           q == fj.queues[victim]
       IN
       \/ /\ q # <<>>
          /\ fj' = [fj EXCEPT !.queues[victim] = SubSeq(q, 1, Len(q) - 1),
                              !.queued_tasks = SizeSub(@, 1),
                              !.cur[w] = q[Len(q)],
                              !.sub[w] = 0,
                              !.pc[w] = "run"]
       \/ /\ q = <<>> \/ FjQueueBusy(victim, w)
          /\ fj' = IF fj.k[w] + 1 < FjSize
                   THEN [fj EXCEPT !.k[w] = @ + 1]
                   ELSE FjAt(fj, w, "wait")
    /\ UNCHANGED fjSide

\* Line 101, a sub-task: counter.fetch_add(1) and the output.
FjRunSub(w) ==
    /\ fj.pc[w] = "run"
    /\ fj.cur[w][2] > 0
    /\ fj' = [fj EXCEPT !.runs[fj.cur[w]] = @ + 1,
                        !.cur[w] = FjNoTask,
                        !.pc[w] = "top"]
    /\ UNCHANGED fjSide

\* Line 101, an outer task whose loop is over.
FjOuterDone(w) ==
    /\ fj.pc[w] = "run"
    /\ fj.cur[w][2] = 0
    /\ fj.sub[w] = FjInner
    /\ fj' = [fj EXCEPT !.runs[fj.cur[w]] = @ + 1,
                        !.cur[w] = FjNoTask,
                        !.pc[w] = "top"]
    /\ UNCHANGED fjSide

\* An outer task calls pool.submit (test, lines 20-21), lines 24-30: with stop
\* set submit throws; the exception leaves the outer task and is swallowed by
\* worker_loop (lines 100-105).
FjSelfCheck(w) ==
    /\ fj.pc[w] = "run"
    /\ fj.cur[w][2] = 0
    /\ fj.sub[w] < FjInner
    /\ fj' = IF fj.stop
             THEN [fj EXCEPT !.runs[fj.cur[w]] = @ + 1,
                             !.threw = @ \cup {fj.cur[w]},
                             !.cur[w] = FjNoTask,
                             !.pc[w] = "top"]
             ELSE FjAt(fj, w, "sub_push")
    /\ UNCHANGED fjSide

\* Lines 33-39: called on a worker, emplace_front on its own deque.
FjSelfPush(w) ==
    /\ fj.pc[w] = "sub_push"
    /\ fj' = [fj EXCEPT !.queues[w] = <<<<fj.cur[w][1], fj.sub[w] + 1>>>> \o @,
                        !.pc[w] = "sub_add"]
    /\ UNCHANGED fjSide

\* Line 40: queued_tasks.fetch_add(1).
FjSelfAdd(w) ==
    /\ fj.pc[w] = "sub_add"
    /\ fj' = [fj EXCEPT !.queued_tasks = SizeAdd(@, 1), !.pc[w] = "sub_notify"]
    /\ UNCHANGED fjSide

\* Lines 41-42: cv.notify_one(); submit returns into the outer task's loop.
FjSelfNotify(w) ==
    /\ fj.pc[w] = "sub_notify"
    /\ fj' \in FjNotifyOne([fj EXCEPT !.sub[w] = @ + 1, !.pc[w] = "run"])
    /\ UNCHANGED fjSide

\* Lines 109-113: lock cv_mutex and evaluate the wait predicate.
FjWaitCheck(w) ==
    /\ fj.pc[w] = "wait"
    /\ \A v \in FjWorkers : fj.pc[v] # "about_wait"
    /\ fj' = FjAt(fj, w, IF fj.stop \/ fj.queued_tasks > 0 THEN "top"
                         ELSE "about_wait")
    /\ UNCHANGED fjSide

\* ... with the predicate false, the wait releases cv_mutex and blocks.
FjBlock(w) ==
    /\ fj.pc[w] = "about_wait"
    /\ fj' = [fj EXCEPT !.cv = @ \cup {w}, !.pc[w] = "waiting"]
    /\ UNCHANGED fjSide

\* A spurious wake-up.
FjSpuriousWake(w) ==
    /\ fj.pc[w] = "waiting"
    /\ w \in fj.cv
    /\ fj' = [fj EXCEPT !.cv = @ \ {w}, !.pc[w] = "wait"]
    /\ UNCHANGED fjSide

InitForkJoin ==
    /\ CoInit([f \in CoFrames |-> NoProg], "none")
    /\ fj = FjStart("m_submit", "top")
    /\ LET c == [ctor |-> "fixed", a |-> CoPoolSize, b |-> 0, k |-> ClassicFixed]
       IN PoolInit(c, Construct(c))

NextForkJoin ==
    \/ FjExtCheck
    \/ FjExtPush
    \/ FjExtAdd
    \/ FjExtNotify
    \/ FjDtorStop
    \/ FjDtorNotify
    \/ FjDtorJoin
    \/ \E w \in FjWorkers : FjTop(w)
    \/ \E w \in FjWorkers : FjPopLocal(w)
    \/ \E w \in FjWorkers : FjSteal(w)
    \/ \E w \in FjWorkers : FjRunSub(w)
    \/ \E w \in FjWorkers : FjOuterDone(w)
    \/ \E w \in FjWorkers : FjSelfCheck(w)
    \/ \E w \in FjWorkers : FjSelfPush(w)
    \/ \E w \in FjWorkers : FjSelfAdd(w)
    \/ \E w \in FjWorkers : FjSelfNotify(w)
    \/ \E w \in FjWorkers : FjWaitCheck(w)
    \/ \E w \in FjWorkers : FjBlock(w)
    \/ \E w \in FjWorkers : FjSpuriousWake(w)

SpecForkJoin == InitForkJoin /\ [][NextForkJoin]_vars

\* A step of worker w's own code; a spurious wake-up is none.
FjWorkerStep(w) ==
    \/ FjTop(w)
    \/ FjPopLocal(w)
    \/ FjSteal(w)
    \/ FjRunSub(w)
    \/ FjOuterDone(w)
    \/ FjSelfCheck(w)
    \/ FjSelfPush(w)
    \/ FjSelfAdd(w)
    \/ FjSelfNotify(w)
    \/ FjWaitCheck(w)
    \/ FjBlock(w)

FjMainStep == FjExtCheck \/ FjExtPush \/ FjExtAdd \/ FjExtNotify

\* WorkStealingThreadPool pool(n) with n in 1..FjThreads.
InitFjKeep ==
    /\ CoInit([f \in CoFrames |-> NoProg], "none")
    /\ \E n \in 1..FjThreads :
         fj = [FjStart("m_submit", "top") EXCEPT
                 !.pc = [t \in FjAll |-> IF t > n THEN "none" ELSE @[t]]]
    /\ LET c == [ctor |-> "fixed", a |-> CoPoolSize, b |-> 0, k |-> ClassicFixed]
       IN PoolInit(c, Construct(c))

\* main submits its outer tasks and then keeps the pool alive: it neither
\* submits again nor destroys the pool.
NextFjKeep ==
    \/ FjMainStep
    \/ \E w \in FjWorkers : FjWorkerStep(w)
    \/ \E w \in FjWorkers : FjSpuriousWake(w)

\* Fair scheduling: every thread that can take a step of its code takes one,
\* a thread that wants a mutex gets it; spurious wake-ups are not promised.
FairSpecFjKeep ==
    /\ InitFjKeep
    /\ [][NextFjKeep]_vars
    /\ WF_vars(FjMainStep)
    /\ \A w \in FjWorkers : SF_vars(FjWorkerStep(w))

---------------------------------------------------------------------------
(* Properties                                                              *)

\* submit returned normally for task n.
Accepted(n) == outcome[n] \in {"early", "late"}
\* The destructor has returned.
Destroyed == pc[Owner] = "d_done"
\* The sub-tasks of nesting task o.
Inner(o) == (o + 1)..(o + KInner)

\* C1: in each of the four kinds, when every submit call was made by an
\* external thread and had returned before the destructor started, every
\* task submitted has been executed exactly once when the destructor returns,
\* and no task is ever executed twice.
C1_AllExecutedOnce ==
    /\ \A n \in Tasks : runs[n] <= 1
    /\ (Destroyed /\ \A n \in Tasks : outcome[n] \in {"none", "early"})
         => \A n \in Tasks : outcome[n] = "early" => runs[n] = 1

\* C2: in the work-stealing kinds, when a nesting task and all the sub-tasks
\* it submits from inside its worker were submitted before shutdown began,
\* each sub-task has been executed exactly once when the destructor returns
\* (KInner executions per nesting task), and no task is ever executed twice.
C2_NestedExactlyOnce ==
    /\ \A n \in Tasks : runs[n] <= 1
    /\ Destroyed =>
         \A o \in Tasks :
            (body[o] = "nest" /\ outcome[o] = "early"
               /\ \A i \in Inner(o) : outcome[i] = "early")
              => /\ runs[o] = 1
                 /\ \A i \in Inner(o) : runs[i] = 1
                 /\ Cardinality({i \in Inner(o) : runs[i] = 1}) = KInner

\* A nesting task and its sub-task, both submitted before shutdown, have run
\* in a pool with more than one queue, and the pool is destroyed.
C2_Witness ==
    /\ Destroyed
    /\ NQ >= 2
    /\ \E o \in Tasks :
         /\ body[o] = "nest" /\ outcome[o] = "early" /\ runs[o] = 1
         /\ \A i \in Inner(o) : outcome[i] = "early" /\ runs[i] = 1

\* C3: every task that is in the global queue or in a worker queue at the
\* moment the destructor sets stop has been executed when the destructor
\* returns.
C3_ShutdownDrains == Destroyed => \A n \in at_stop : runs[n] >= 1

\* C4: under fair scheduling, once the destructor has set stop it returns.
C4_DestructionTerminates == stop ~> Destroyed

\* C5: when a submit call started after stop was set, the calling thread's
\* next step is the submit-after-shutdown error, and that step changes
\* nothing the pool owns (queues, queued_tasks, round-robin cursor, worker
\* counters, handles).
C5_SubmitAfterStopFails ==
    [][\A t \in Threads :
         (arg[t] # 0 /\ outcome[arg[t]] = "pending_stopped" /\ pc'[t] # pc[t])
           => (outcome'[arg[t]] = "rejected_stopped" /\ UNCHANGED poolVars)]_vars

\* A submit that started after stop was set has thrown.
C5_Witness == \E n \in Tasks : outcome[n] = "rejected_stopped"

\* C6: a submit call that started before stop was set and returned normally
\* after it has had its task executed when the destructor returns.
C6_ConcurrentSubmit ==
    Destroyed => \A n \in Tasks : outcome[n] = "late" => runs[n] >= 1

\* C7: a task that throws does not terminate the process, in any kind.
C7_ThrowingTaskSurvives == ~terminated

\* C8: while the pool is operational, under fair scheduling, every task that
\* submit accepted is eventually executed, with no later submit and no
\* shutdown needed.
C8_AcceptedEventuallyRuns == \A n \in Tasks : Accepted(n) ~> (runs[n] >= 1)

\* Every task the environment can create was accepted and has run, in a pool
\* that was never shut down.
C8_Witness == ~stop /\ \A n \in Tasks : Accepted(n) /\ runs[n] = 1

\* C9: a submit with an empty task returns and changes nothing: nothing the
\* pool owns, no thread's position (nobody notified, nobody spawned), also
\* when stop is already set.
C9_NullSubmitNoOp ==
    [][null_returns' # null_returns
         => /\ null_returns' = null_returns + 1
            /\ UNCHANGED <<poolVars, thrVars, outcome, runs, terminated>>]_vars

\* A submit with an empty task has returned after stop was set.
C9_Witness == null_returns > 0 /\ stop

\* C10: a constructor call fails, with no thread started, exactly when it is
\* the fixed constructor with n = 0 or an elastic kind, the elastic-global
\* constructor with min = 0, max = 0 or min > max, or the elastic
\* work-stealing constructor with another kind or with min = 0, max = 0 or
\* min > max; every other call yields a pool with its threads started.
C10_ConstructorErrors ==
    LET c == ctor_call
        bad_bounds == c.a = 0 \/ c.b = 0 \/ c.a > c.b
        must_fail ==
            \/ c.ctor = "fixed"
                 /\ (c.a = 0 \/ c.k \in {ElasticGlobal, AdvancedElasticStealing})
            \/ c.ctor = "elastic_global" /\ bad_bounds
            \/ c.ctor = "elastic_stealing"
                 /\ (c.k # AdvancedElasticStealing \/ bad_bounds)
    IN  /\ ~ctor_out.ok <=> must_fail
        /\ ~ctor_out.ok =>
              /\ ctor_out.started = 0
              /\ \A w \in Workers : pc[w] = "none"
        /\ ctor_out.ok => ctor_out.started = c.a /\ c.a >= 1

\* The fixed constructor was called with a positive size and an elastic kind,
\* and failed.
C10_Witness ==
    /\ ctor_call.ctor = "fixed" /\ ctor_call.a > 0 /\ ctor_call.k = ElasticGlobal
    /\ ~ctor_out.ok

\* C11: in both elastic kinds, from the end of construction until stop is
\* set, the active-worker counter stays between the minimum and the maximum.
C11_ElasticBounds ==
    ~stop =>
      /\ kind = ElasticGlobal =>
           min_threads <= active_threads /\ active_threads <= max_threads
      /\ kind = AdvancedElasticStealing =>
           ws_min_threads <= ws_active_threads /\ ws_active_threads <= ws_max_threads

\* An elastic pool with min < max has grown to its maximum, and one has gone
\* back to its minimum after a worker was spawned and retired.
C11_Witness ==
    /\ ~stop /\ IsElastic
    /\ \/ kind = ElasticGlobal /\ min_threads < max_threads
            /\ active_threads = min_threads
            /\ \E w \in Workers : pc[w] = "exited"
       \/ kind = AdvancedElasticStealing /\ ws_min_threads < ws_max_threads
            /\ ws_active_threads = ws_min_threads
            /\ \E w \in Workers : pc[w] = "exited"

\* C12: in both elastic kinds, once no task is submitted any more and the
\* queues are empty, with idle timeouts firing and fair scheduling the number
\* of active workers eventually equals the minimum and stays there.
C12_IdleDecay ==
    /\ <>[](kind = ElasticGlobal => active_threads = min_threads)
    /\ <>[](kind = AdvancedElasticStealing => ws_active_threads = ws_min_threads)

\* Every task was submitted and has run, the queues are empty, and a
\* work-stealing elastic pool that had grown is back at its minimum with the
\* extra worker retired.
C12_Witness ==
    /\ kind = AdvancedElasticStealing /\ ws_min_threads < ws_max_threads
    /\ \A n \in Tasks : Accepted(n) /\ runs[n] = 1
    /\ QueuedTasks = {}
    /\ ws_active_threads = ws_min_threads
    /\ \E w \in Workers : pc[w] = "exited" /\ ~ws_running[w]

\* What sync_wait gives its caller once it has returned: the failure (-1) if
\* ep is set (lines 290-292), the value in out otherwise (line 294).
SyncWaitResult == IF ep THEN -1 ELSE out

\* C13: sync_wait(task) returns if and only if the task reaches completion.
\* It returns only when the task is complete, and then with the task's value,
\* or re-raising the task's captured failure; and once the task is complete,
\* whether inside start() or later on a pool worker, sync_wait returns.
C13_SyncWaitCompletes ==
    /\ [](mpc = "m_returned" =>
            /\ co_state[RootFrame] = "final"
            /\ SyncWaitResult = AwaitResult(value[RootFrame], exception[RootFrame]))
    /\ (co_state[RootFrame] = "final") ~> (mpc = "m_returned")

\* The tasks that frame f awaits and that have reached their final suspend.
FinishedKids(f) ==
    {j \in 1..Len(co_prog[f].kids) : co_state[co_prog[f].kids[j]] = "final"}

\* C14: a task P that awaits a task C is resumed exactly once for that await
\* and only after the body of C has finished, and the await gives P the value
\* C returned (or C's failure), whether C completed without suspending or
\* after suspending and resuming on a worker.
C14_AwaiterResumedOnce ==
    \A f \in CoFrames :
        co_prog[f].type \in {"task", "waiter"} =>
            /\ co_log.cont[f] = Cardinality(FinishedKids(f))
            /\ co_log.awaits[f] - co_log.cont[f] = (IF co_state[f] = "susp_child" THEN 1 ELSE 0)
            /\ co_state[f] = "susp_child" => \A t \in CoThreads : co_run[t] # f
            /\ Len(co_log.got[f]) = co_log.cont[f]
            /\ \A j \in 1..Len(co_log.got[f]) :
                 LET c == co_prog[f].kids[j] IN
                 co_log.got[f][j] = IF exception[c] THEN -1
                                    ELSE ReturnValue(c, co_acc[c])

\* A child that suspended and was resumed by a worker has finished and its
\* awaiter, awaiting a second child, has been resumed with the first's value.
C14_Witness ==
    LET c == RootFrame + 1 IN
    /\ co_prog[c].type = "task"
    /\ co_log.resumed[c] >= 1
    /\ co_state[c] = "final"
    /\ ~exception[c]
    /\ co_log.cont[RootFrame] = 1
    /\ co_log.got[RootFrame] = <<ReturnValue(c, 0)>>
    /\ co_state[RootFrame] = "susp_child"

\* No body of the program suspends on schedule() or sleep_for.
AllInline == \A f \in CoFrames : co_prog[f].yields = 0

\* C15: completion of a task hands control to its awaiter without growing
\* the call stack: when a parent awaits n children one after another, each
\* completing without suspending, the depth of nested resume calls does not
\* depend on n.  It stays at the depth reached under the first child:
\* start() resumes the waiter (1), which resumes the task (2), which resumes
\* its child (3).
C15_ResumeDepthBounded ==
    AllInline => \A t \in CoThreads : co_depth[t] <= 3

\* C16: a failure raised inside a task body is captured in the task's frame
\* and does not propagate into the thread that resumed the frame; it is
\* re-raised at the awaiter's await_resume, and a task that completed without
\* failure yields its stored value there.
C16_FailureCaptured ==
    [][\A t \in CoThreads : \A f \in CoFrames :
         (/\ co_run[t] = f
          /\ co_prog[f].type = "task"
          /\ co_state[f] \in {"run", "raise"}
          /\ co_state'[f] = "final") =>
            LET raised == co_state[f] = "raise" \/ co_prog[f].result = "throw"
                c == continuation[f]
            IN
            /\ exception'[f] = raised
            /\ ~raised => value'[f] = ReturnValue(f, co_acc[f])
            /\ ~co_log'.escaped
            /\ mpc' = mpc
            /\ IF c = 0
               THEN co_run'[t] = 0
               ELSE /\ co_run'[t] = c
                    /\ co_state'[c] = (IF raised THEN "raise" ELSE "run")
                    /\ Len(co_log'.got[c]) = Len(co_log.got[c]) + 1
                    /\ co_log'.got[c][Len(co_log'.got[c])] =
                           (IF raised THEN -1 ELSE value'[f])]_vars

\* A child raised on a pool worker; the failure went through the task that
\* awaited it, which raises nothing itself, to sync_wait's waiter.
C16_Witness ==
    LET c == RootFrame + 1 IN
    /\ co_prog[c].type = "task"
    /\ co_prog[c].result = "throw"
    /\ co_log.resumed[c] >= 1
    /\ exception[c]
    /\ co_prog[RootFrame].result = "value"
    /\ exception[RootFrame]
    /\ co_log.got[RootFrame] = <<-1>>
    /\ ep

\* The resumptions of frame f submitted to the pool and not yet executed.
Pending(f) == Cardinality({i \in 1..Len(posted) : posted[i] = f})

\* C17: awaiting schedule() always suspends the task and submits exactly one
\* resumption to the pool; the task is resumed exactly once, by a worker of
\* the pool executing that resumption, never inline by the awaiting thread.
C17_ScheduleResumesOnWorker ==
    \A f \in CoFrames :
        (co_prog[f].type = "task" /\ co_prog[f].via = "schedule") =>
            /\ co_log.posts[f] = co_i[f]
            /\ Pending(f) = (IF co_state[f] = "susp_sched" THEN 1 ELSE 0)
            /\ co_log.resumed[f] = co_log.posts[f] - Pending(f)
            /\ co_state[f] = "susp_sched" => \A t \in CoThreads : co_run[t] # f
            /\ \A t \in CoThreads :
                 (co_run[t] = f /\ co_i[f] >= 1) => t \in CoWorkers

\* A task that awaited schedule() on the calling thread runs on a worker.
C17_Witness ==
    \E t \in CoWorkers :
        /\ co_run[t] = RootFrame
        /\ co_prog[RootFrame].via = "schedule"
        /\ co_i[RootFrame] = 1
        /\ co_log.posts[RootFrame] = 1
        /\ co_log.resumed[RootFrame] = 1
        /\ co_state[RootFrame] = "run"

\* C18: for sleep_for with a positive duration the awaiting task is resumed
\* exactly once, only by a pool worker running the resumption posted through
\* the scheduler, never directly on the timer thread, and not before the
\* timer thread has finished its sleep.
C18_SleepResumesOnWorker ==
    /\ [](\A f \in CoFrames :
            (co_prog[f].type = "task" /\ co_prog[f].via = "sleep") =>
                /\ co_log.posts[f] + (IF timer[f] = "none" THEN 0 ELSE 1) = co_i[f]
                /\ timer[f] # "none" <=> co_state[f] = "susp_sleep"
                /\ Pending(f) = (IF co_state[f] = "susp_sched" THEN 1 ELSE 0)
                /\ co_log.resumed[f] = co_log.posts[f] - Pending(f)
                /\ co_state[f] \in {"susp_sleep", "susp_sched"} =>
                       \A t \in CoThreads : co_run[t] # f
                /\ \A t \in CoThreads :
                     (co_run[t] = f /\ co_i[f] >= 1) => t \in CoWorkers)
    /\ [][\A f \in CoFrames :
            (co_prog[f].type = "task" /\ co_prog[f].via = "sleep") =>
                /\ co_log'.posts[f] # co_log.posts[f] =>
                       /\ timer[f] = "slept"
                       /\ co_log'.posts[f] = co_log.posts[f] + 1
                /\ (co_state[f] = "susp_sleep" /\ co_state'[f] # "susp_sleep") =>
                       /\ timer[f] = "slept"
                       /\ co_state'[f] = "susp_sched"
                /\ co_log'.resumed[f] # co_log.resumed[f] =>
                       /\ co_log'.resumed[f] = co_log.resumed[f] + 1
                       /\ co_state[f] = "susp_sched"
                       /\ \E t \in CoWorkers : co_run[t] = 0 /\ co_run'[t] = f]_vars

\* A task that slept on the calling thread runs on a worker after the timer
\* thread's post.
C18_Witness ==
    \E t \in CoWorkers :
        /\ co_run[t] = RootFrame
        /\ co_prog[RootFrame].via = "sleep"
        /\ co_i[RootFrame] = 1
        /\ timer[RootFrame] = "none"
        /\ co_log.posts[RootFrame] = 1
        /\ co_log.resumed[RootFrame] = 1

\* The detached tasks of the program.
Detached == {f \in CoFrames : co_prog[f].type = "detached"}

\* C19: a detached task starts running its body immediately when it is
\* called, with no start(); for k detached tasks that each increment a shared
\* counter r times, yielding through schedule() after each increment, and
\* then mark a barrier, the barrier wait returns only after all k bodies have
\* finished, and the counter then equals k * r.
C19_DetachedBarrier ==
    /\ [](\A f \in Detached : co_state[f] = "none" <=> f > spawned)
    /\ [](mpc = "m_returned" =>
            /\ \A f \in Detached :
                 /\ co_state[f] = "gone"
                 /\ co_i[f] = co_prog[f].yields
                 /\ shared = NumDetached * co_prog[f].yields
            /\ Detached = {} => shared = 0)
    /\ [][spawned' # spawned =>
            /\ spawned' = spawned + 1
            /\ co_state'[spawned'] = "run"
            /\ co_run'[CoCaller] = spawned']_vars

\* The barrier wait has returned for several tasks of at least one round
\* whose bodies went on on pool workers.
C19_Witness ==
    /\ mpc = "m_returned"
    /\ NumDetached >= 2
    /\ \A f \in Detached : co_prog[f].yields >= 1 /\ co_log.resumed[f] >= 1
    /\ shared = NumDetached * co_prog[1].yields

---------------------------------------------------------------------------
(* The order of the queues                                                 *)

\* The tasks that were submitted from inside a task (they are in the queue
\* of the worker that pushed them until a worker takes them), and the task
\* whose body submitted them, in the order of their ids.
SelfPushed(n) == \E o \in TaskSpace : n \in SubTasks(o)
Parent(n) == CHOOSE o \in TaskSpace : n \in SubTasks(o)

\* C21: when a worker takes a task from its own queue (pop_local_ws) while
\* tasks it pushed itself are in it, the task taken is one of those, and the
\* one pushed last: no task of the same body that was pushed later is left.
C21_SelfPushedLifo ==
    [][\A w \in 1..MaxThreads :
         (IsWS /\ pc[w] = "pop" /\ pc'[w] = "run") =>
            LET own == {n \in Range(ws_queues[w]) : SelfPushed(n)} IN
               own # {} =>
                  /\ cur'[w] \in own
                  /\ \A n \in own : Parent(n) = Parent(cur'[w]) => n <= cur'[w]]_vars

\* A worker runs the second sub-task it pushed while the first one is still
\* in its queue.
C21_Witness ==
    \E w \in 1..MaxThreads : \E o \in TaskSpace :
        /\ IsWS
        /\ body[o] = "fork"
        /\ pc[w] = "run"
        /\ cur[w] = o + 2
        /\ (o + 1) \in Range(ws_queues[w])

\* Task q[i] has been in queue q longer than q[j], as far as the places tell:
\* of two tasks pushed at the back the one nearer the front came first, of
\* two tasks pushed at the front the one nearer the back.
InQueueLonger(q, i, j) ==
    \/ i < j /\ ~SelfPushed(q[i]) /\ ~SelfPushed(q[j])
    \/ i > j /\ SelfPushed(q[i]) /\ SelfPushed(q[j])

\* C22: a successful steal takes the task that has been in the victim's
\* queue the longest: no task left in the queue was there before it.
C22_StealTakesOldest ==
    [][\A w \in 1..MaxThreads :
         (IsWS /\ pc[w] = "steal" /\ pc'[w] = "run") =>
            LET q == ws_queues[Victim(w, loc[w])] IN
               \A i, j \in 1..Len(q) :
                  q[j] = cur'[w] => ~InQueueLonger(q, i, j)]_vars

\* C23: in the global-queue kinds the queue changes only by a submit that
\* appends its task behind every task already queued (line 176), or by a
\* worker that removes the task at the front and makes it the task it runs
\* next (lines 204-205, 233-234): tasks are dequeued in the order in which
\* they were enqueued, and a single worker starts them in that order.
C23_GlobalFifo ==
    [][task_queue' # task_queue =>
         \/ \E t \in Externals :
               /\ pc[t] = "s_g_lock"
               /\ task_queue' = Append(task_queue, arg[t])
         \/ /\ task_queue # <<>>
            /\ task_queue' = Tail(task_queue)
            /\ \E w \in Workers :
                  /\ cur[w] = 0
                  /\ cur'[w] = Head(task_queue)
                  /\ pc'[w] = "run"]_vars

\* Two tasks were queued, the first of them is running and the one queued
\* behind it is still waiting.
C23_Witness ==
    /\ ~IsWS
    /\ Len(task_queue) = 1
    /\ \E w \in Workers : pc[w] = "run" /\ cur[w] \in Tasks /\ cur[w] # task_queue[1]

---------------------------------------------------------------------------
(* Growth of the elastic pools                                             *)

\* The worker threads that are in their loop, and the submit calls of the
\* global path that have decided to start a thread and not yet started it.
LiveWorkers == {w \in Workers : pc[w] \notin {"none", "exited"}}
SpawnsPending == {t \in Externals : pc[t] \in {"s_g_emplace", "s_g_emplace2"}}

\* C25: a submit that passes the critical section of the global path (lines
\* 171-182) decides to start a thread exactly if the pool is ElasticGlobal,
\* idle_threads is 0 and active_threads < max_threads, and increments
\* active_threads in that same step; a thread starts only in the emplace_back
\* of such a submit, one per submit; the threads running and about to be
\* started are as many as active_threads and never more than max_threads.
C25_ElasticGlobalSpawn ==
    /\ [](kind = ElasticGlobal =>
            /\ Cardinality(LiveWorkers) + Cardinality(SpawnsPending) = active_threads
            /\ active_threads <= max_threads)
    /\ [][/\ \A t \in Externals :
               (pc[t] = "s_g_lock" /\ pc'[t] \in {"s_g_emplace", "s_g_notify"}) =>
                  /\ pc'[t] = "s_g_emplace" <=>
                        (kind = ElasticGlobal /\ idle_threads = 0
                           /\ active_threads < max_threads)
                  /\ active_threads' =
                        active_threads + (IF pc'[t] = "s_g_emplace" THEN 1 ELSE 0)
          /\ \A w \in Workers :
               (~IsWS /\ pc[w] = "none" /\ pc'[w] # "none") =>
                  /\ \E t \in Externals : pc[t] = "s_g_emplace2" /\ pc'[t] = "s_g_notify"
                  /\ \A v \in Workers \ {w} : pc[v] = "none" => pc'[v] = "none"]_vars

\* An elastic pool grown to max_threads by a submit still in progress, all
\* of its threads in their loops.
C25_Witness ==
    /\ kind = ElasticGlobal
    /\ min_threads < max_threads
    /\ active_threads = max_threads
    /\ Cardinality(LiveWorkers) = max_threads
    /\ \E t \in Externals : pc[t] = "s_g_notify"

\* C26: in the elastic work-stealing kind a submit, by an external thread or
\* by a worker of the pool, that counts its task (lines 136, 150) while no
\* worker is idle and ws_active_threads < ws_max_threads goes on to start a
\* worker on the lowest slot that is not running, and the start sets the
\* slot's flag and increments ws_active_threads.
C26_ElasticWsSpawn ==
    [][\A t \in Threads :
         /\ (/\ kind = AdvancedElasticStealing
             /\ pc[t] \in {"s_ws_ext_add", "s_ws_self_add"}
             /\ pc'[t] # pc[t]
             /\ ws_idle_threads = 0
             /\ ws_active_threads < ws_max_threads) =>
                /\ pc'[t] = "s_ws_spawn"
                /\ loc'[t] = find_inactive_ws_slot
         /\ (/\ pc[t] = "s_ws_spawn"
             /\ pc'[t] # pc[t]
             /\ ~ws_running[loc[t]]
             /\ ws_active_threads < ws_max_threads) =>
                /\ ws_running'[loc[t]]
                /\ ws_active_threads' = ws_active_threads + 1]_vars

---------------------------------------------------------------------------
(* Wake-ups of the work-stealing pools                                     *)

\* The workers blocked in the wait on ws_cv_ (lines 313, 340).
IdleOnWsCv == {w \in 1..MaxThreads : IsWS /\ pc[w] = "waiting"}

\* C24: whenever ws_queued_tasks > 0 while workers are blocked on ws_cv_, one
\* of those workers leaves its wait (and evaluates the predicate again) after
\* finitely many steps, whichever thread pushed the tasks.  The claim is taken
\* in the reading most favourable to the code: one of the idle workers, not
\* each of them, and nobody needs to wake once the counter is back at 0.
C24_IdleWorkerWoken ==
    \A S \in (SUBSET (1..MaxThreads)) \ {{}} :
        (ws_queued_tasks > 0 /\ IdleOnWsCv = S)
            ~> (ws_queued_tasks = 0 \/ \E w \in S : pc[w] # "waiting")

---------------------------------------------------------------------------
(* Worker slots of the work-stealing kinds                                 *)

Slots == 1..Len(ws_running)

\* The thread of slot i is in worker_ws.
LiveInSlot(i) == pc[i] \notin {"none", "exited"}

\* C29 as stated: a slot whose flag is false has no thread handle to join
\* (never spawned, or joined already); a slot whose flag is true owns a live
\* thread.
C29_SlotJoinedOrLive ==
    \A i \in Slots :
        /\ ~ws_running[i] => ~ws_threads[i]
        /\ ws_running[i] => ws_threads[i] /\ LiveInSlot(i)

\* C29 amended: a slot whose flag is false has no live thread (it was never
\* spawned, or its thread has returned from worker_ws; the handle may still be
\* joinable); a slot whose flag is true owns a joinable handle whose thread
\* is live; a handle that is not joinable has no live thread; and a thread is
\* started in a slot only when the slot has no live thread, spawn_ws_worker
\* having joined the handle left there (lines 102-104).
C29_SlotOwnsLiveThread ==
    /\ [](\A i \in Slots :
            /\ ~ws_running[i] => ~LiveInSlot(i)
            /\ ws_running[i] => ws_threads[i] /\ LiveInSlot(i)
            /\ ~ws_threads[i] => ~LiveInSlot(i))
    /\ [][\A i \in Slots :
            (~ws_running[i] /\ ws_running'[i]) =>
               /\ ~LiveInSlot(i)
               /\ pc'[i] = "top"
               /\ ws_threads'[i]]_vars

\* A retired slot of a running elastic pool: its flag is false, its thread
\* has returned and its handle is still joinable.
C29_Witness ==
    /\ kind = AdvancedElasticStealing
    /\ ~stop
    /\ \E i \in Slots : ~ws_running[i] /\ ws_threads[i] /\ pc[i] = "exited"

\* C30: in the elastic work-stealing kind a task that is in the queue of a
\* slot whose worker is not running (never spawned, or retired) is eventually
\* executed: a live worker steals it, the slot need not be respawned.
C30_TaskOfIdleSlotRuns ==
    \A n \in Tasks :
        (/\ kind = AdvancedElasticStealing
         /\ \E i \in Slots : ~ws_running[i] /\ n \in Range(ws_queues[i]))
            ~> (runs[n] >= 1)

\* Two external submits went round-robin to queues 1 and 2 of a pool whose
\* slot 2 was never spawned; both tasks have been executed.
C30_Witness ==
    /\ kind = AdvancedElasticStealing
    /\ ws_max_threads = 2
    /\ pc[2] = "none"
    /\ ws_rr = 2
    /\ \A n \in Tasks : runs[n] = 1

---------------------------------------------------------------------------
(* Routing of submit in the work-stealing kinds                            *)

\* The steps of a submit call in the work-stealing path.
InWsSubmit == {"s_ws_stop", "s_ws_self_push", "s_ws_self_add", "s_ws_self_notify",
               "s_ws_ext_push", "s_ws_ext_add", "s_ws_spawn", "s_ws_notify"}

\* C27: past the stop check a submit by a worker of this pool goes to the
\* worker's own queue and pushes its task there at the front; a submit by any
\* other thread pushes its task at the back of queue (ws_rr mod N) and adds 1
\* to ws_rr; N is the number of queues, ws_max_threads in the elastic kind.
\* Each of them then adds 1 to ws_queued_tasks (a size_t fetch_add), and no
\* other step of the call changes a queue, the cursor or the counter: one
\* queue has grown by the one task.
C27_SubmitRouting ==
    /\ [](IsWS => /\ Len(ws_queues) = NQ
                   /\ kind = AdvancedElasticStealing => NQ = ws_max_threads)
    /\ [][\A t \in Threads :
            (IsWS /\ pc[t] \in InWsSubmit /\ pc'[t] # pc[t]) =>
               LET own == tls_worker_id(t) + 1
                   rr == (ws_rr % NQ) + 1 IN
               /\ (pc[t] = "s_ws_stop" /\ pc'[t] \in InWsSubmit) =>
                     pc'[t] = IF tls_pool(t) = "this" THEN "s_ws_self_push"
                              ELSE "s_ws_ext_push"
               /\ ws_queues' =
                     IF pc[t] = "s_ws_self_push"
                     THEN [ws_queues EXCEPT ![own] = <<arg[t]>> \o ws_queues[own]]
                     ELSE IF pc[t] = "s_ws_ext_push"
                     THEN [ws_queues EXCEPT ![rr] = Append(ws_queues[rr], arg[t])]
                     ELSE ws_queues
               /\ ws_rr' = IF pc[t] = "s_ws_ext_push" THEN SizeAdd(ws_rr, 1) ELSE ws_rr
               /\ ws_queued_tasks' =
                     IF pc[t] \in {"s_ws_self_add", "s_ws_ext_add"}
                     THEN SizeAdd(ws_queued_tasks, 1)
                     ELSE ws_queued_tasks
               /\ pc[t] \in {"s_ws_self_push", "s_ws_ext_push"} =>
                     pc'[t] \in {"s_ws_self_add", "s_ws_ext_add"}]_vars

\* A queue that holds a task its worker pushed in front of a task that an
\* external thread pushed, both counted, the cursor advanced once.
C27_Witness ==
    \E w \in 1..NQ :
        /\ IsWS
        /\ Len(ws_queues[w]) = 2
        /\ SelfPushed(ws_queues[w][1])
        /\ ~SelfPushed(ws_queues[w][2])
        /\ ws_queued_tasks = 2
        /\ ws_rr = 2

\* C28: a thread whose thread-local pool is another pool, and whose worker
\* id there is the index of a queue of this pool, is treated as an external
\* caller: past the stop check it takes the round-robin path, and the only
\* queue its submit changes is the round-robin one, at the back.
C28_RoutingScopedToPool ==
    [][\A t \in Threads :
         (tls_pool(t) = "other" /\ tls_worker_id(t) < NQ /\ pc'[t] # pc[t]) =>
            /\ pc[t] = "s_ws_stop" => pc'[t] \in {"s_ws_ext_push", "ext"}
            /\ pc'[t] # "s_ws_self_push"
            /\ \A i \in 1..NQ :
                 ws_queues'[i] # ws_queues[i] =>
                    /\ i = (ws_rr % NQ) + 1
                    /\ ws_queues'[i] = Append(ws_queues[i], arg[t])]_vars

\* The worker of the other pool has pushed its task at the back of queue 2;
\* its worker id in its own pool names queue 1.
C28_Witness ==
    /\ IsWS
    /\ tls_pool(Client) = "other"
    /\ tls_worker_id(Client) + 1 = 1
    /\ pc[Client] = "s_ws_ext_add"
    /\ loc[Client] = 2
    /\ ws_queues[2][Len(ws_queues[2])] = arg[Client]

---------------------------------------------------------------------------
(* Bookkeeping of the pools                                                *)

RECURSIVE SumLen(_)
\* The number of tasks in the queues qs.
SumLen(qs) == IF qs = <<>> THEN 0 ELSE Len(Head(qs)) + SumLen(Tail(qs))

\* A submit is between its push and its fetch_add (lines 134-136, 148-150).
\* pop_local_ws and steal_from_others_ws take the task and do the fetch_sub
\* in one critical section, which is one step here.
PushUncounted == \E t \in Threads : pc[t] \in {"s_ws_ext_add", "s_ws_self_add"}

\* C40: no step takes ws_queued_tasks below zero (a fetch_sub at 0 wraps the
\* size_t), and whenever no submit is between its push and its fetch_add the
\* counter equals the number of tasks in all worker queues.
C40_CounterConsistent ==
    /\ [][ws_queued_tasks' = SizeSub(ws_queued_tasks, 1) => ws_queued_tasks > 0]_vars
    /\ []((IsWS /\ ~PushUncounted) => ws_queued_tasks = SumLen(ws_queues))

\* The worker threads that are in their loop right now.
Started == {w \in Workers : pc[w] = "top"}

\* C33: right after a constructor has returned normally, a fixed pool of size
\* n has exactly n workers (in the global kind n handles and active_threads =
\* n, in the work-stealing kind n queues and n running slots); an elastic
\* global pool has exactly min workers and active_threads = min; an elastic
\* work-stealing pool has max queues and max slots, workers on exactly the
\* first min slots and running = false on the others.
C33_ConstructionPostconditions ==
    LET c == ctor_call IN
    ctor_out.ok =>
        /\ c.ctor = "fixed" /\ c.k = ClassicFixed =>
              /\ kind = ClassicFixed
              /\ Started = 1..c.a
              /\ Len(workers) = c.a
              /\ active_threads = c.a
        /\ c.ctor = "fixed" /\ c.k = WorkStealing =>
              /\ kind = WorkStealing
              /\ Started = 1..c.a
              /\ Len(ws_queues) = c.a
              /\ ws_running = [i \in 1..c.a |-> TRUE]
              /\ ws_threads = [i \in 1..c.a |-> TRUE]
              /\ ws_active_threads = c.a
        /\ c.ctor = "elastic_global" =>
              /\ kind = ElasticGlobal
              /\ Started = 1..c.a
              /\ Len(workers) = c.a
              /\ active_threads = c.a
              /\ min_threads = c.a /\ max_threads = c.b
        /\ c.ctor = "elastic_stealing" =>
              /\ kind = AdvancedElasticStealing
              /\ Started = 1..c.a
              /\ Len(ws_queues) = c.b
              /\ ws_running = [i \in 1..c.b |-> i <= c.a]
              /\ ws_threads = [i \in 1..c.b |-> i <= c.a]
              /\ ws_active_threads = c.a
              /\ ws_min_threads = c.a /\ ws_max_threads = c.b
        /\ \A i \in 1..Len(ws_queues) : ws_queues[i] = <<>>
        /\ task_queue = <<>>

\* An elastic work-stealing pool constructed with min < max.
C33_Witness ==
    /\ ctor_out.ok
    /\ ctor_call.ctor = "elastic_stealing"
    /\ ctor_call.a = 2 /\ ctor_call.b = 4
    /\ ws_running = <<TRUE, TRUE, FALSE, FALSE>>

\* The threads inside workers_.emplace_back (thread_pool.cpp:185): they have
\* read the end of the vector and not yet stored the new element and end.
InEmplaceBack == {t \in Threads : pc[t] = "s_g_emplace2"}

\* C37: the vector of worker handles is never modified by two threads at the
\* same time: at most one submit call is inside workers_.emplace_back.
C37_HandlesListExclusive == Cardinality(InEmplaceBack) <= 1

\* C35: a worker leaves its loop before shutdown only in an elastic pool, out
\* of an idle wait that has timed out, in a state in which no task is queued
\* anywhere in the pool and the active count is above the minimum; the step
\* is the worker's own, no submit call moves in it.
C35_RetireOnlyWhenIdle ==
    [][\A w \in Workers :
         (pc'[w] = "exited" /\ pc[w] # "exited" /\ ~stop) =>
            /\ IsElastic
            /\ pc[w] = "waiting"
            /\ QueuedTasks = {}
            /\ kind = ElasticGlobal => active_threads > min_threads
            /\ kind = AdvancedElasticStealing => ws_active_threads > ws_min_threads
            /\ \A t \in Externals : pc'[t] = pc[t]]_vars


RunningSlots == {i \in Slots : ws_running[i]}

\* C39: the worker bookkeeping is consistent whenever the pool mutex that
\* guards it is free: in the work-stealing kinds ws_active_threads_ is the
\* number of slots whose running flag is set and 0 <= ws_idle_threads_ <=
\* ws_active_threads_; in the global kinds 0 <= idle_threads_ <=
\* active_threads_; once the destructor has returned the active counts are 0
\* and no running flag is set.
C39_BookkeepingConsistent ==
    /\ (IsWS /\ ws_cv_mutex = {}) =>
          /\ ws_active_threads = Cardinality(RunningSlots)
          /\ 0 <= ws_idle_threads
          /\ ws_idle_threads <= ws_active_threads
    /\ (~IsWS /\ queue_mutex = {}) =>
          /\ 0 <= idle_threads
          /\ idle_threads <= active_threads
    /\ Destroyed =>
          /\ active_threads = 0
          /\ ws_active_threads = 0
          /\ RunningSlots = {}


(* sync_wait and the threads inside its waiter coroutine *)

InWaiter == {t \in CoThreads : co_run[t] = WaiterFrame}

\* C36: in the step in which sync_wait returns, destroying m, cv, the result
\* slot and the waiter's frame, no thread is executing the
\* waiter coroutine any more: the thread that set done has finished its
\* notify_one and reached the waiter's final suspension.
C36_WaiterFinishedAtReturn ==
    [][(mpc = "m_destroy" /\ mpc' # "m_destroy") =>
          /\ InWaiter = {}
          /\ co_state[WaiterFrame] = "final"]_vars


(* sync_wait on a worker of the pool *)

OneThreadPool == kind = ClassicFixed /\ active_threads = 1

\* Frame f has suspended in co_await sched.schedule().
SuspendedThroughSchedule(f) ==
    /\ co_prog[f].type = "task"
    /\ co_prog[f].via = "schedule"
    /\ co_log.posts[f] > 0

\* C34: sync_wait called inside a task on the only worker of a one-thread
\* pool, on a task that suspends through schedule() on that pool, never
\* returns: the resumption is never executed and stays in the queue, the
\* waiter never sets done and the calling worker never gets past its wait.
C34_SyncWaitOnOnlyWorkerBlocks ==
    /\ [](\A f \in CoFrames :
            (OneThreadPool /\ SuspendedThroughSchedule(f)) =>
                /\ \E i \in 1..Len(posted) : posted[i] = f
                /\ co_log.resumed[f] = 0
                /\ ~done
                /\ mpc \in {"m_lock", "m_about_wait", "m_waiting"})
    /\ [][(OneThreadPool /\ posted # <<>>) => posted' = posted]_vars

C34_Witness ==
    /\ OneThreadPool
    /\ SuspendedThroughSchedule(RootFrame)
    /\ mpc = "m_waiting"


(* The fork-join pool kept alive *)

\* Worker w is in its wait or on its way into it, having found no task.
FjIdle(w) == fj.pc[w] \in {"wait", "about_wait", "waiting"}

\* C38: a task that an external thread submits to a WorkStealingThreadPool
\* while every worker is idle or about to go idle is executed eventually
\* under fair scheduling, with no further submit and the pool not destroyed.
C38_ExternalTaskExecuted ==
    (/\ fj.pc[FjMain] = "m_push"
     /\ fj.next = FjOuter
     /\ \A w \in FjPoolWorkers : FjIdle(w))
        ~> (fj.runs[<<FjOuter, 0>>] >= 1)


(* The lock discipline of ThreadPool *)

\* The mutexes thread t holds, and the worker-queue mutexes among them.
LkHeld(t) == {m \in LkMutexes : lk.owner[m] = t}
LkQueuesHeld(t) == {i \in 1..MaxLockThreads : lk.owner[LkQueue(i)] = t}

\* The mutex thread t is blocked on in a lock that waits (<<>>: none); a
\* try_to_lock waits for nothing.
LkWants(t) ==
    CASE lk.pc[t] \in {"g_lock", "s_g_lock"} -> LkGlobal
      [] lk.pc[t] \in {"exit_lock", "idle_lock", "s_ws_lock", "s_spawn_lock"} -> LkWs
      [] lk.pc[t] \in {"pop_lock", "s_self_lock"} -> LkQueue(t)
      [] lk.pc[t] = "s_idx_lock" -> LkQueue(lk.at[t])
      [] lk.pc[t] = "steal" /\ lk.at[t] # 0 -> LkQueue(lk.at[t])
      [] OTHER -> <<>>

\* Thread t waits for a mutex that thread u holds.
LkWaitsFor(t, u) == LkWants(t) # <<>> /\ lk.owner[LkWants(t)] = u

\* A set of threads each of which waits for a mutex held inside the set.
LkCycle(S) == S # {} /\ \A t \in S : \E u \in S : LkWaitsFor(t, u)

\* C31: in the work-stealing kinds no thread holds two worker-queue mutexes
\* at once; no worker holds its queue's mutex together with ws_cv_mutex_; a
\* worker waits for no queue mutex but its own (a thief only tries the
\* victim's); no thread takes ws_cv_mutex_ while it holds a queue mutex; and
\* no set of threads waits in a cycle for the pool's mutexes.
C31_LockDiscipline ==
    /\ [](IsWS =>
            /\ \A t \in Threads : Cardinality(LkQueuesHeld(t)) <= 1
            /\ \A w \in LkWorkers : ~(lk.owner[LkQueue(w)] = w /\ lk.owner[LkWs] = w)
            /\ \A w \in LkWorkers : \A i \in 1..MaxLockThreads :
                 LkWants(w) = LkQueue(i) => i = w
            /\ \A S \in SUBSET Threads : ~LkCycle(S))
    /\ [][\A t \in Threads :
            (IsWS /\ lk.owner[LkWs] # t /\ lk'.owner[LkWs] = t) => LkQueuesHeld(t) = {}]_vars

\* A thief holds a victim's mutex while the client, holding ws_cv_mutex_,
\* waits for another queue's mutex, and a worker waits for its own.
C31_Witness ==
    /\ IsWS
    /\ \E w \in LkWorkers : \E v \in LkWorkers \ {w} :
         /\ lk.pc[w] = "steal_cs" /\ lk.owner[LkQueue(v)] = w
         /\ lk.pc[v] \in {"pop_lock", "s_self_lock"}
    /\ lk.pc[Client] = "s_idx_lock"
    /\ lk.owner[LkWs] = Client

\* C32: a worker that is executing a task holds no mutex of the pool, in
\* each of the four loops; so a submit called by the task never waits for a
\* mutex that the calling worker holds itself.
C32_TaskRunsUnlocked ==
    \A w \in Workers :
        /\ lk.pc[w] = "run" => LkHeld(w) = {}
        /\ ~LkWaitsFor(w, w)

\* A task on a worker has called submit and is inside the submit's critical
\* section.
C32_Witness ==
    \E w \in Workers :
        \/ lk.pc[w] = "s_self_cs" /\ LkHeld(w) = {LkQueue(w)}
        \/ lk.pc[w] = "s_g_cs" /\ LkHeld(w) = {LkGlobal}

=============================================================================
